---- MODULE Spec2Model ----
(***************************************************************************)
(* Bookshelf API (gorts-demo): the in-memory repositories for Book,        *)
(* Author and ReadingList, each a map guarded by a sync.RWMutex, and the   *)
(* services layered on them.  One goroutine per request; every repository *)
(* call takes the repository's lock, runs its critical section and         *)
(* releases the lock (defer) on return.                                    *)
(*                                                                         *)
(* Strings that the code only measures (Title, Name, Description, Bio) are *)
(* represented by their byte length, which is all Validate reads; strings  *)
(* that the code compares (identifiers, ISBN, Country) stay strings.       *)
(* time.Time values are natural numbers, ZeroTime being the zero value.    *)
(***************************************************************************)
EXTENDS Integers, Sequences, FiniteSets, TLC

VARIABLES
    clock,      \* what time.Now() returns
    books,      \* BookRepository.books        : id -> Book
    authors,    \* AuthorRepository.authors    : id -> Author
    lists,      \* ReadingListRepository.lists : id -> ReadingList
    mu,         \* the three sync.RWMutex, by repository
    pc,         \* per goroutine: "idle", "wait" (blocked on a lock), "crit"
    at,         \* per goroutine: the repository call it is in
    loc,        \* per goroutine: arguments and locals of the running call
    res,        \* per goroutine: what its last finished call returned
    sut,        \* repositories wired into this process
    heap,       \* memory: structs and backing arrays, by address
    held,       \* addresses of the structs that callers hold pointers to
    listPtrs,   \* ReadingListRepository.lists as pointers : id -> address
    bookPtrs,   \* BookRepository.books as pointers        : id -> address
    users,      \* InMemoryUserStore: username -> password and role
    authOut,    \* the last request sent through the auth middleware, answered
    counter,    \* RequestID's counter
    rid,        \* per goroutine: its position in RequestID and its locals
    issued      \* X-Request-ID values in the order requests took them

vars == <<clock, books, authors, lists, mu, pc, at, loc, res, sut,
          heap, held, listPtrs, bookPtrs, users, authOut, counter, rid, issued>>

\* what no repository or service step writes
\* the middleware's state
mw == <<users, authOut, counter, rid, issued>>

env == <<sut, heap, held, listPtrs, bookPtrs, mw>>

(***************************************************************************)
(* Bounds                                                                  *)
(***************************************************************************)
MaxClock == 2       \* time.Now() ranges over 1..MaxClock
MaxBookIDs == 2     \* longest BookIDs a request body carries
MaxHeap == 6        \* objects allocated in one run of the pointer-level model

Threads == {"t1", "t2"}
BookIDs == {"b1", "b2"}
AuthorIDs == {"a1", "a2"}
ListIDs == {"l1", "l2"}
ISBNs == {"", "x", "y"}
Countries == {"PL", "UK"}
Repos == {"book", "author", "list"}

ZeroTime == 0
CallerTimes == {ZeroTime, MaxClock}   \* timestamps a caller may put in an entity

(***************************************************************************)
(* Go maps                                                                 *)
(***************************************************************************)
EmptyMap == [k \in {} |-> 0]

Put(m, k, v) == [x \in (DOMAIN m) \cup {k} |-> IF x = k THEN v ELSE m[x]]

Remove(m, k) == [x \in (DOMAIN m) \ {k} |-> m[x]]

Range(s) == {s[i] : i \in DOMAIN s}

(***************************************************************************)
(* Entities.  A []string is a record: isNil tells the nil slice from the   *)
(* empty one, elems are its elements.                                      *)
(***************************************************************************)
Slice(s) == [isNil |-> FALSE, elems |-> s]

NilSlice == [isNil |-> TRUE, elems |-> <<>>]

Book(id, title, isbn, authorID, pages, c, u) ==
    [ID |-> id, Title |-> title, ISBN |-> isbn, AuthorID |-> authorID,
     Pages |-> pages, CreatedAt |-> c, UpdatedAt |-> u]

Author(id, name, bio, country, c, u) ==
    [ID |-> id, Name |-> name, Bio |-> bio, Country |-> country,
     CreatedAt |-> c, UpdatedAt |-> u]

ReadingList(id, name, desc, bookIDs, c, u) ==
    [ID |-> id, Name |-> name, Description |-> desc, BookIDs |-> bookIDs,
     CreatedAt |-> c, UpdatedAt |-> u]

NoBook == Book("", 0, "", "", 0, ZeroTime, ZeroTime)

NoAuthor == Author("", 0, 0, "", ZeroTime, ZeroTime)

NoList == ReadingList("", 0, 0, NilSlice, ZeroTime, ZeroTime)

(***************************************************************************)
(* model: Validate and the ReadingList membership mutators                 *)
(***************************************************************************)
\* Validate without the rule on the page count
Book_Validate_NoPages(b) ==
    IF b.Title = 0 THEN "title is required"
    ELSE IF b.Title > 200 THEN "title must be 200 characters or less"
    ELSE IF b.ISBN = "" THEN "isbn is required"
    ELSE IF b.AuthorID = "" THEN "author_id is required"
    ELSE "nil"

Book_Validate(b) ==
    IF b.Title = 0 THEN "title is required"
    ELSE IF b.Title > 200 THEN "title must be 200 characters or less"
    ELSE IF b.ISBN = "" THEN "isbn is required"
    ELSE IF b.AuthorID = "" THEN "author_id is required"
    ELSE IF b.Pages < 0 THEN "pages cannot be negative"
    ELSE "nil"

Author_Validate(a) ==
    IF a.Name = 0 THEN "name is required"
    ELSE IF a.Name > 100 THEN "name must be 100 characters or less"
    ELSE IF a.Bio > 2000 THEN "bio must be 2000 characters or less"
    ELSE "nil"

ReadingList_Validate(r) ==
    IF r.Name = 0 THEN "name is required"
    ELSE IF r.Name > 100 THEN "name must be 100 characters or less"
    ELSE IF r.Description > 500 THEN "description must be 500 characters or less"
    ELSE "nil"

\* the index of the first element of s equal to x, 0 when there is none
IndexOf(s, x) ==
    IF \E i \in DOMAIN s : s[i] = x
    THEN CHOOSE i \in DOMAIN s : s[i] = x /\ \A j \in 1..(i - 1) : s[j] # x
    ELSE 0

ReadingList_ContainsBook(r, bookID) == IndexOf(r.BookIDs.elems, bookID) # 0

\* AddBook without the scan for an equal identifier
ReadingList_AddBook_NoScan(r, bookID) ==
    [ok |-> TRUE,
     list |-> [r EXCEPT !.BookIDs = Slice(Append(r.BookIDs.elems, bookID))]]

\* AddBook that reports success without appending
ReadingList_AddBook_NoAppend(r, bookID) ==
    IF IndexOf(r.BookIDs.elems, bookID) # 0
    THEN [ok |-> FALSE, list |-> r]
    ELSE [ok |-> TRUE, list |-> r]

\* returns the bool and the receiver as the call leaves it
ReadingList_AddBook(r, bookID) ==
    IF IndexOf(r.BookIDs.elems, bookID) # 0
    THEN [ok |-> FALSE, list |-> r]
    ELSE [ok |-> TRUE,
          list |-> [r EXCEPT !.BookIDs = Slice(Append(r.BookIDs.elems, bookID))]]

ReadingList_RemoveBook(r, bookID) ==
    LET s == r.BookIDs.elems
        i == IndexOf(s, bookID)
    IN  IF i = 0
        THEN [ok |-> FALSE, list |-> r]
        ELSE [ok |-> TRUE,
              list |-> [r EXCEPT !.BookIDs =
                           Slice(SubSeq(s, 1, i - 1) \o SubSeq(s, i + 1, Len(s)))]]

(***************************************************************************)
(* repository: the critical sections.  Each operator is the body of one    *)
(* method between taking and releasing the lock: it returns the error, the *)
(* map as the method leaves it, and the caller's struct as the method      *)
(* leaves it (Create and Update write the timestamps through the pointer). *)
(***************************************************************************)
\* Create without the existence check
BookRepository_Create_Overwrite(m, book, now) ==
    LET b == [book EXCEPT !.CreatedAt = now, !.UpdatedAt = now]
    IN  [err |-> "nil", store |-> Put(m, b.ID, b), ent |-> b]

BookRepository_Create(m, book, now) ==
    IF book.ID \in DOMAIN m
    THEN [err |-> "repository.ErrBookExists", store |-> m, ent |-> book]
    ELSE LET b == [book EXCEPT !.CreatedAt = now, !.UpdatedAt = now]
         IN  [err |-> "nil", store |-> Put(m, b.ID, b), ent |-> b]

BookRepository_Get(m, id) ==
    IF id \notin DOMAIN m
    THEN [err |-> "repository.ErrBookNotFound", store |-> m, ent |-> NoBook]
    ELSE [err |-> "nil", store |-> m, ent |-> m[id]]

\* Update that does not restore the stored CreatedAt
BookRepository_Update_CallerCreatedAt(m, book, now) ==
    IF book.ID \notin DOMAIN m
    THEN [err |-> "repository.ErrBookNotFound", store |-> m, ent |-> book]
    ELSE LET b == [book EXCEPT !.UpdatedAt = now]
         IN  [err |-> "nil", store |-> Put(m, b.ID, b), ent |-> b]

BookRepository_Update(m, book, now) ==
    IF book.ID \notin DOMAIN m
    THEN [err |-> "repository.ErrBookNotFound", store |-> m, ent |-> book]
    ELSE LET b == [book EXCEPT !.CreatedAt = m[book.ID].CreatedAt,
                               !.UpdatedAt = now]
         IN  [err |-> "nil", store |-> Put(m, b.ID, b), ent |-> b]

BookRepository_Delete(m, id) ==
    IF id \notin DOMAIN m
    THEN [err |-> "repository.ErrBookNotFound", store |-> m]
    ELSE [err |-> "nil", store |-> Remove(m, id)]

\* a []*T as the repositories build it: the copies in map iteration order,
\* which is unspecified, so a set; List starts from make(.., 0, n), which is
\* never nil, the Find methods from a nil slice that append makes non-nil
MadeSlice(copies) == [isNil |-> FALSE, elems |-> copies]

AppendedSlice(copies) == [isNil |-> copies = {}, elems |-> copies]

BookRepository_List(m) == MadeSlice({m[id] : id \in DOMAIN m})

BookRepository_FindByAuthor(m, authorID) ==
    AppendedSlice({m[id] : id \in {i \in DOMAIN m : m[i].AuthorID = authorID}})

BookRepository_Count(m) == Cardinality(DOMAIN m)

\* Create without the existence check
AuthorRepository_Create_Overwrite(m, author, now) ==
    LET a == [author EXCEPT !.CreatedAt = now, !.UpdatedAt = now]
    IN  [err |-> "nil", store |-> Put(m, a.ID, a), ent |-> a]

AuthorRepository_Create(m, author, now) ==
    IF author.ID \in DOMAIN m
    THEN [err |-> "repository.ErrAuthorExists", store |-> m, ent |-> author]
    ELSE LET a == [author EXCEPT !.CreatedAt = now, !.UpdatedAt = now]
         IN  [err |-> "nil", store |-> Put(m, a.ID, a), ent |-> a]

AuthorRepository_Get(m, id) ==
    IF id \notin DOMAIN m
    THEN [err |-> "repository.ErrAuthorNotFound", store |-> m, ent |-> NoAuthor]
    ELSE [err |-> "nil", store |-> m, ent |-> m[id]]

\* Update that does not stamp UpdatedAt
AuthorRepository_Update_CallerUpdatedAt(m, author, now) ==
    IF author.ID \notin DOMAIN m
    THEN [err |-> "repository.ErrAuthorNotFound", store |-> m, ent |-> author]
    ELSE LET a == [author EXCEPT !.CreatedAt = m[author.ID].CreatedAt]
         IN  [err |-> "nil", store |-> Put(m, a.ID, a), ent |-> a]

AuthorRepository_Update(m, author, now) ==
    IF author.ID \notin DOMAIN m
    THEN [err |-> "repository.ErrAuthorNotFound", store |-> m, ent |-> author]
    ELSE LET a == [author EXCEPT !.CreatedAt = m[author.ID].CreatedAt,
                                 !.UpdatedAt = now]
         IN  [err |-> "nil", store |-> Put(m, a.ID, a), ent |-> a]

AuthorRepository_Delete(m, id) ==
    IF id \notin DOMAIN m
    THEN [err |-> "repository.ErrAuthorNotFound", store |-> m]
    ELSE [err |-> "nil", store |-> Remove(m, id)]

AuthorRepository_List(m) == MadeSlice({m[id] : id \in DOMAIN m})

\* FindByCountry without the comparison of the country
AuthorRepository_FindByCountry_All(m, country) ==
    AppendedSlice({m[id] : id \in DOMAIN m})

AuthorRepository_FindByCountry(m, country) ==
    AppendedSlice({m[id] : id \in {i \in DOMAIN m : m[i].Country = country}})

AuthorRepository_Count(m) == Cardinality(DOMAIN m)

\* Create that leaves the caller's timestamps in place
ReadingListRepository_Create_CallerTimes(m, list, now) ==
    IF list.ID \in DOMAIN m
    THEN [err |-> "repository.ErrReadingListExists", store |-> m, ent |-> list]
    ELSE LET l == [list EXCEPT !.BookIDs = IF @.isNil THEN Slice(<<>>) ELSE @]
         IN  [err |-> "nil",
              store |-> Put(m, l.ID, [l EXCEPT !.BookIDs = Slice(@.elems)]),
              ent |-> l]

ReadingListRepository_Create(m, list, now) ==
    IF list.ID \in DOMAIN m
    THEN [err |-> "repository.ErrReadingListExists", store |-> m, ent |-> list]
    ELSE LET l == [list EXCEPT !.CreatedAt = now, !.UpdatedAt = now,
                               !.BookIDs = IF @.isNil THEN Slice(<<>>) ELSE @]
         IN  [err |-> "nil",
              store |-> Put(m, l.ID, [l EXCEPT !.BookIDs = Slice(@.elems)]),
              ent |-> l]

ReadingListRepository_Get(m, id) ==
    IF id \notin DOMAIN m
    THEN [err |-> "repository.ErrReadingListNotFound", store |-> m, ent |-> NoList]
    ELSE [err |-> "nil", store |-> m,
          ent |-> [m[id] EXCEPT !.BookIDs = Slice(@.elems)]]

\* Update that stores the list whether or not the identifier is present
ReadingListRepository_Update_Upsert(m, list, now) ==
    LET l == [list EXCEPT !.CreatedAt = IF list.ID \in DOMAIN m
                                        THEN m[list.ID].CreatedAt ELSE now,
                          !.UpdatedAt = now]
    IN  [err |-> "nil",
         store |-> Put(m, l.ID, [l EXCEPT !.BookIDs = Slice(@.elems)]),
         ent |-> l]

\* Update that keeps the stored members when the caller passes none
ReadingListRepository_Update_KeepMembers(m, list, now) ==
    IF list.ID \notin DOMAIN m
    THEN [err |-> "repository.ErrReadingListNotFound", store |-> m, ent |-> list]
    ELSE LET l == [list EXCEPT !.CreatedAt = m[list.ID].CreatedAt,
                               !.UpdatedAt = now]
         IN  [err |-> "nil",
              store |-> Put(m, l.ID,
                            [l EXCEPT !.BookIDs = IF @.elems = <<>>
                                                  THEN m[list.ID].BookIDs
                                                  ELSE Slice(@.elems)]),
              ent |-> l]

ReadingListRepository_Update(m, list, now) ==
    IF list.ID \notin DOMAIN m
    THEN [err |-> "repository.ErrReadingListNotFound", store |-> m, ent |-> list]
    ELSE LET l == [list EXCEPT !.CreatedAt = m[list.ID].CreatedAt,
                               !.UpdatedAt = now]
         IN  [err |-> "nil",
              store |-> Put(m, l.ID, [l EXCEPT !.BookIDs = Slice(@.elems)]),
              ent |-> l]

ReadingListRepository_Delete(m, id) ==
    IF id \notin DOMAIN m
    THEN [err |-> "repository.ErrReadingListNotFound", store |-> m]
    ELSE [err |-> "nil", store |-> Remove(m, id)]

ReadingListRepository_List(m) ==
    MadeSlice({[m[id] EXCEPT !.BookIDs = Slice(@.elems)] : id \in DOMAIN m})

\* FindByBook looking at the first member of each list only
ReadingListRepository_FindByBook_First(m, bookID) ==
    AppendedSlice({[m[id] EXCEPT !.BookIDs = Slice(@.elems)] :
        id \in {i \in DOMAIN m : /\ m[i].BookIDs.elems # <<>>
                                 /\ m[i].BookIDs.elems[1] = bookID}})

ReadingListRepository_FindByBook(m, bookID) ==
    AppendedSlice({[m[id] EXCEPT !.BookIDs = Slice(@.elems)] :
        id \in {i \in DOMAIN m : ReadingList_ContainsBook(m[i], bookID)}})

ReadingListRepository_Count(m) == Cardinality(DOMAIN m)

(***************************************************************************)
(* Goroutines and sync.RWMutex                                             *)
(***************************************************************************)
NoVal == [ID |-> ""]

Idle == [op |-> "", repo |-> "", call |-> ""]

Loc0 ==
    [book |-> NoBook, author |-> NoAuthor, list |-> NoList, id |-> "", bid |-> "",
     country |-> ""]

Res0 == [op |-> "", err |-> "", val |-> NoVal]

\* Create, Update and Delete take mu.Lock(), every other method mu.RLock()
ModeOf(call) == IF call \in {"Create", "Update", "Delete"} THEN "W" ELSE "R"

\* the unlock that releases a write lock but leaves a read lock in place
Unlocked_WriterOnly(t, r) ==
    [mu EXCEPT ![r] = [writer |-> IF @.writer = t THEN "none" ELSE @.writer,
                       readers |-> @.readers]]

Unlocked(t, r) ==
    [mu EXCEPT ![r] = [writer |-> IF @.writer = t THEN "none" ELSE @.writer,
                       readers |-> @.readers \ {t}]]

\* goroutine t is inside the critical section of repository call c of op
InCrit(t, op, repo, c) ==
    pc[t] = "crit" /\ at[t] = [op |-> op, repo |-> repo, call |-> c]

\* t enters op and reaches the Lock/RLock of its first repository call
Call(t, op, repo, c, l) ==
    /\ pc[t] = "idle"
    /\ repo \in sut
    /\ pc' = [pc EXCEPT ![t] = "wait"]
    /\ at' = [at EXCEPT ![t] = [op |-> op, repo |-> repo, call |-> c]]
    /\ loc' = [loc EXCEPT ![t] = l]
    /\ res' = [res EXCEPT ![t] = Res0]
    /\ UNCHANGED <<clock, books, authors, lists, mu, env>>

\* Continue without the unlock
Continue_KeepLock(t, repo, c, l) ==
    /\ pc' = [pc EXCEPT ![t] = "wait"]
    /\ at' = [at EXCEPT ![t] = [op |-> at[t].op, repo |-> repo, call |-> c]]
    /\ loc' = [loc EXCEPT ![t] = l]
    /\ UNCHANGED <<clock, mu, res, env>>

\* t leaves the critical section (deferred unlock) and goes on to the
\* Lock/RLock of the next repository call of the same operation
Continue(t, repo, c, l) ==
    /\ mu' = Unlocked(t, at[t].repo)
    /\ pc' = [pc EXCEPT ![t] = "wait"]
    /\ at' = [at EXCEPT ![t] = [op |-> at[t].op, repo |-> repo, call |-> c]]
    /\ loc' = [loc EXCEPT ![t] = l]
    /\ UNCHANGED <<clock, res, env>>

\* t leaves the critical section (deferred unlock) and its operation returns
Return(t, err, val) ==
    /\ mu' = Unlocked(t, at[t].repo)
    /\ pc' = [pc EXCEPT ![t] = "idle"]
    /\ at' = [at EXCEPT ![t] = Idle]
    /\ loc' = [loc EXCEPT ![t] = Loc0]
    /\ res' = [res EXCEPT ![t] = [op |-> at[t].op, err |-> err, val |-> val]]
    /\ UNCHANGED <<clock, env>>

\* an operation that returns before its first repository call
ReturnEarly(t, op, err) ==
    /\ pc[t] = "idle"
    /\ res' = [res EXCEPT ![t] = [op |-> op, err |-> err, val |-> NoVal]]
    /\ UNCHANGED <<clock, books, authors, lists, mu, pc, at, loc, env>>

\* RLock that does not wait for the writer to unlock
RLock_IgnoreWriter(t) ==
    /\ pc[t] = "wait"
    /\ ModeOf(at[t].call) = "R"
    /\ mu' = [mu EXCEPT ![at[t].repo].readers = @ \cup {t}]
    /\ pc' = [pc EXCEPT ![t] = "crit"]
    /\ UNCHANGED <<clock, books, authors, lists, at, loc, res, env>>

RLock(t) ==
    /\ pc[t] = "wait"
    /\ ModeOf(at[t].call) = "R"
    /\ mu[at[t].repo].writer = "none"
    /\ mu' = [mu EXCEPT ![at[t].repo].readers = @ \cup {t}]
    /\ pc' = [pc EXCEPT ![t] = "crit"]
    /\ UNCHANGED <<clock, books, authors, lists, at, loc, res, env>>

Lock(t) ==
    /\ pc[t] = "wait"
    /\ ModeOf(at[t].call) = "W"
    /\ mu[at[t].repo].writer = "none"
    /\ mu[at[t].repo].readers = {}
    /\ mu' = [mu EXCEPT ![at[t].repo].writer = t]
    /\ pc' = [pc EXCEPT ![t] = "crit"]
    /\ UNCHANGED <<clock, books, authors, lists, at, loc, res, env>>

\* time passes
Tick ==
    /\ clock < MaxClock
    /\ clock' = clock + 1
    /\ UNCHANGED <<books, authors, lists, mu, pc, at, loc, res, env>>

(***************************************************************************)
(* The repositories called directly, as the repository tests do            *)
(***************************************************************************)
BookRepo_Create(t, book) ==
    \/ Call(t, "BookRepository.Create", "book", "Create", [Loc0 EXCEPT !.book = book])
    \/ /\ InCrit(t, "BookRepository.Create", "book", "Create")
       /\ loc[t].book = book
       /\ LET r == BookRepository_Create(books, book, clock)
          IN  books' = r.store /\ Return(t, r.err, NoVal)
       /\ UNCHANGED <<authors, lists>>

BookRepo_Get(t, id) ==
    \/ Call(t, "BookRepository.Get", "book", "Get", [Loc0 EXCEPT !.id = id])
    \/ /\ InCrit(t, "BookRepository.Get", "book", "Get")
       /\ loc[t].id = id
       /\ LET r == BookRepository_Get(books, id)
          IN  Return(t, r.err, r.ent)
       /\ UNCHANGED <<books, authors, lists>>

BookRepo_Update(t, book) ==
    \/ Call(t, "BookRepository.Update", "book", "Update", [Loc0 EXCEPT !.book = book])
    \/ /\ InCrit(t, "BookRepository.Update", "book", "Update")
       /\ loc[t].book = book
       /\ LET r == BookRepository_Update(books, book, clock)
          IN  books' = r.store /\ Return(t, r.err, NoVal)
       /\ UNCHANGED <<authors, lists>>

BookRepo_Delete(t, id) ==
    \/ Call(t, "BookRepository.Delete", "book", "Delete", [Loc0 EXCEPT !.id = id])
    \/ /\ InCrit(t, "BookRepository.Delete", "book", "Delete")
       /\ loc[t].id = id
       /\ LET r == BookRepository_Delete(books, id)
          IN  books' = r.store /\ Return(t, r.err, NoVal)
       /\ UNCHANGED <<authors, lists>>

AuthorRepo_Create(t, author) ==
    \/ Call(t, "AuthorRepository.Create", "author", "Create", [Loc0 EXCEPT !.author = author])
    \/ /\ InCrit(t, "AuthorRepository.Create", "author", "Create")
       /\ loc[t].author = author
       /\ LET r == AuthorRepository_Create(authors, author, clock)
          IN  authors' = r.store /\ Return(t, r.err, NoVal)
       /\ UNCHANGED <<books, lists>>

AuthorRepo_Get(t, id) ==
    \/ Call(t, "AuthorRepository.Get", "author", "Get", [Loc0 EXCEPT !.id = id])
    \/ /\ InCrit(t, "AuthorRepository.Get", "author", "Get")
       /\ loc[t].id = id
       /\ LET r == AuthorRepository_Get(authors, id)
          IN  Return(t, r.err, r.ent)
       /\ UNCHANGED <<books, authors, lists>>

AuthorRepo_Update(t, author) ==
    \/ Call(t, "AuthorRepository.Update", "author", "Update", [Loc0 EXCEPT !.author = author])
    \/ /\ InCrit(t, "AuthorRepository.Update", "author", "Update")
       /\ loc[t].author = author
       /\ LET r == AuthorRepository_Update(authors, author, clock)
          IN  authors' = r.store /\ Return(t, r.err, NoVal)
       /\ UNCHANGED <<books, lists>>

AuthorRepo_Delete(t, id) ==
    \/ Call(t, "AuthorRepository.Delete", "author", "Delete", [Loc0 EXCEPT !.id = id])
    \/ /\ InCrit(t, "AuthorRepository.Delete", "author", "Delete")
       /\ loc[t].id = id
       /\ LET r == AuthorRepository_Delete(authors, id)
          IN  authors' = r.store /\ Return(t, r.err, NoVal)
       /\ UNCHANGED <<books, lists>>

ListRepo_Create(t, list) ==
    \/ Call(t, "ReadingListRepository.Create", "list", "Create", [Loc0 EXCEPT !.list = list])
    \/ /\ InCrit(t, "ReadingListRepository.Create", "list", "Create")
       /\ loc[t].list = list
       /\ LET r == ReadingListRepository_Create(lists, list, clock)
          IN  lists' = r.store /\ Return(t, r.err, NoVal)
       /\ UNCHANGED <<books, authors>>

ListRepo_Get(t, id) ==
    \/ Call(t, "ReadingListRepository.Get", "list", "Get", [Loc0 EXCEPT !.id = id])
    \/ /\ InCrit(t, "ReadingListRepository.Get", "list", "Get")
       /\ loc[t].id = id
       /\ LET r == ReadingListRepository_Get(lists, id)
          IN  Return(t, r.err, r.ent)
       /\ UNCHANGED <<books, authors, lists>>

ListRepo_Update(t, list) ==
    \/ Call(t, "ReadingListRepository.Update", "list", "Update", [Loc0 EXCEPT !.list = list])
    \/ /\ InCrit(t, "ReadingListRepository.Update", "list", "Update")
       /\ loc[t].list = list
       /\ LET r == ReadingListRepository_Update(lists, list, clock)
          IN  lists' = r.store /\ Return(t, r.err, NoVal)
       /\ UNCHANGED <<books, authors>>

ListRepo_Delete(t, id) ==
    \/ Call(t, "ReadingListRepository.Delete", "list", "Delete", [Loc0 EXCEPT !.id = id])
    \/ /\ InCrit(t, "ReadingListRepository.Delete", "list", "Delete")
       /\ loc[t].id = id
       /\ LET r == ReadingListRepository_Delete(lists, id)
          IN  lists' = r.store /\ Return(t, r.err, NoVal)
       /\ UNCHANGED <<books, authors>>

(***************************************************************************)
(* Specification of one repository driven directly by concurrent callers. *)
(* A test constructs a single repository, so sut holds one of the three.   *)
(***************************************************************************)
\* no request has gone through the auth middleware yet
NoRequest == [chain |-> "", status |-> 0]

\* a goroutine outside RequestID
RidIdle == [pc |-> "idle", tmp |-> 0]

\* entities the callers pass in: a decoded request body (zero timestamps)
\* for every identifier and, for the first identifier, a second payload
\* that carries timestamps of the caller's choosing
TestBooks ==
    {Book(id, 1, "x", "a1", 0, ZeroTime, ZeroTime) : id \in BookIDs}
    \cup {Book("b1", 1, "y", "a1", 0, MaxClock, MaxClock)}

TestAuthors ==
    {Author(id, 1, 0, "PL", ZeroTime, ZeroTime) : id \in AuthorIDs}
    \cup {Author("a1", 1, 0, "UK", MaxClock, MaxClock)}

TestLists ==
    {ReadingList(id, 1, 0, NilSlice, ZeroTime, ZeroTime) : id \in ListIDs}
    \cup {ReadingList("l1", 1, 0, Slice(<<"b1">>), MaxClock, MaxClock)}

InitCommon ==
    /\ clock = 1
    /\ books = EmptyMap
    /\ authors = EmptyMap
    /\ lists = EmptyMap
    /\ mu = [r \in Repos |-> [writer |-> "none", readers |-> {}]]
    /\ pc = [t \in Threads |-> "idle"]
    /\ at = [t \in Threads |-> Idle]
    /\ loc = [t \in Threads |-> Loc0]
    /\ res = [t \in Threads |-> Res0]
    /\ heap = <<>>
    /\ held = {}
    /\ listPtrs = EmptyMap
    /\ bookPtrs = EmptyMap
    /\ users = EmptyMap
    /\ authOut = NoRequest
    /\ counter = 0
    /\ rid = [t \in Threads |-> RidIdle]
    /\ issued = <<>>

InitRepo == InitCommon /\ sut \in {{r} : r \in Repos}

NextRepo ==
    \/ Tick
    \/ \E t \in Threads :
        \/ RLock(t)
        \/ Lock(t)
        \/ \E book \in TestBooks : BookRepo_Create(t, book)
        \/ \E id \in BookIDs : BookRepo_Get(t, id)
        \/ \E book \in TestBooks : BookRepo_Update(t, book)
        \/ \E id \in BookIDs : BookRepo_Delete(t, id)
        \/ \E author \in TestAuthors : AuthorRepo_Create(t, author)
        \/ \E id \in AuthorIDs : AuthorRepo_Get(t, id)
        \/ \E author \in TestAuthors : AuthorRepo_Update(t, author)
        \/ \E id \in AuthorIDs : AuthorRepo_Delete(t, id)
        \/ \E list \in TestLists : ListRepo_Create(t, list)
        \/ \E id \in ListIDs : ListRepo_Get(t, id)
        \/ \E list \in TestLists : ListRepo_Update(t, list)
        \/ \E id \in ListIDs : ListRepo_Delete(t, id)

SpecRepo == InitRepo /\ [][NextRepo]_vars

\* the scan of CreateBook skipping the stored book with the same identifier
CreateBook_DuplicateISBN_SkipSelf(existingBooks, book) ==
    \E existing \in existingBooks :
        existing.ISBN = book.ISBN /\ existing.ID # book.ID

(***************************************************************************)
(* service: BookService                                                    *)
(***************************************************************************)
\* the scan comparing the identifier where it should compare the ISBN
CreateBook_DuplicateISBN_ByID(existingBooks, book) ==
    \E existing \in existingBooks : existing.ID = book.ID

\* the scan of UpdateBook without skipping the book being updated
UpdateBook_DuplicateISBN_NoSkip(existingBooks, book) ==
    \E existing \in existingBooks : existing.ISBN = book.ISBN

\* the scan of CreateBook over the listed books
CreateBook_DuplicateISBN(existingBooks, book) ==
    \E existing \in existingBooks : existing.ISBN = book.ISBN

\* the scan of UpdateBook, which skips the book being updated
UpdateBook_DuplicateISBN(existingBooks, book) ==
    \E existing \in existingBooks :
        existing.ISBN = book.ISBN /\ existing.ID # book.ID

CreateBook(t, book) ==
    \/ /\ Book_Validate(book) # "nil"
       /\ sut = Repos
       /\ ReturnEarly(t, "CreateBook", "service.ErrInvalidBook")
    \/ /\ Book_Validate(book) = "nil"
       /\ sut = Repos
       /\ Call(t, "CreateBook", "book", "List", [Loc0 EXCEPT !.book = book])
    \/ /\ InCrit(t, "CreateBook", "book", "List")
       /\ loc[t].book = book
       /\ LET existingBooks == BookRepository_List(books).elems
          IN  IF CreateBook_DuplicateISBN(existingBooks, book)
              THEN Return(t, "service.ErrDuplicateISBN", NoVal)
              ELSE Continue(t, "book", "Create", loc[t])
       /\ UNCHANGED <<books, authors, lists>>
    \/ /\ InCrit(t, "CreateBook", "book", "Create")
       /\ loc[t].book = book
       /\ LET r == BookRepository_Create(books, book, clock)
          IN  books' = r.store /\ Return(t, r.err, r.ent)
       /\ UNCHANGED <<authors, lists>>

\* UpdateBook that scans for the ISBN before it validates
UpdateBook_ScanFirst(t, book) ==
    \/ /\ sut = Repos
       /\ Call(t, "UpdateBook", "book", "List", [Loc0 EXCEPT !.book = book])
    \/ /\ InCrit(t, "UpdateBook", "book", "List")
       /\ loc[t].book = book
       /\ LET existingBooks == BookRepository_List(books).elems
          IN  IF UpdateBook_DuplicateISBN(existingBooks, book)
              THEN Return(t, "service.ErrDuplicateISBN", NoVal)
              ELSE IF Book_Validate(book) # "nil"
              THEN Return(t, "service.ErrInvalidBook", NoVal)
              ELSE Continue(t, "book", "Update", loc[t])
       /\ UNCHANGED <<books, authors, lists>>
    \/ /\ InCrit(t, "UpdateBook", "book", "Update")
       /\ loc[t].book = book
       /\ LET r == BookRepository_Update(books, book, clock)
          IN  /\ books' = r.store
              /\ IF r.err = "repository.ErrBookNotFound"
                 THEN Return(t, "service.ErrBookNotFound", NoVal)
                 ELSE Return(t, r.err, r.ent)
       /\ UNCHANGED <<authors, lists>>

UpdateBook(t, book) ==
    \/ /\ Book_Validate(book) # "nil"
       /\ sut = Repos
       /\ ReturnEarly(t, "UpdateBook", "service.ErrInvalidBook")
    \/ /\ Book_Validate(book) = "nil"
       /\ sut = Repos
       /\ Call(t, "UpdateBook", "book", "List", [Loc0 EXCEPT !.book = book])
    \/ /\ InCrit(t, "UpdateBook", "book", "List")
       /\ loc[t].book = book
       /\ LET existingBooks == BookRepository_List(books).elems
          IN  IF UpdateBook_DuplicateISBN(existingBooks, book)
              THEN Return(t, "service.ErrDuplicateISBN", NoVal)
              ELSE Continue(t, "book", "Update", loc[t])
       /\ UNCHANGED <<books, authors, lists>>
    \/ /\ InCrit(t, "UpdateBook", "book", "Update")
       /\ loc[t].book = book
       /\ LET r == BookRepository_Update(books, book, clock)
          IN  /\ books' = r.store
              /\ IF r.err = "repository.ErrBookNotFound"
                 THEN Return(t, "service.ErrBookNotFound", NoVal)
                 ELSE Return(t, r.err, r.ent)
       /\ UNCHANGED <<authors, lists>>

\* DeleteBook that also takes the identifier out of every stored list
DeleteBook_Cascade(t, id) ==
    \/ /\ sut = Repos
       /\ Call(t, "DeleteBook", "book", "Delete", [Loc0 EXCEPT !.id = id])
    \/ /\ InCrit(t, "DeleteBook", "book", "Delete")
       /\ loc[t].id = id
       /\ LET r == BookRepository_Delete(books, id)
              keep(y) == y # id
          IN  /\ books' = r.store
              /\ lists' = [l \in DOMAIN lists |->
                            [lists[l] EXCEPT !.BookIDs = Slice(SelectSeq(@.elems, keep))]]
              /\ IF r.err = "repository.ErrBookNotFound"
                 THEN Return(t, "service.ErrBookNotFound", NoVal)
                 ELSE Return(t, r.err, NoVal)
       /\ UNCHANGED authors

DeleteBook(t, id) ==
    \/ /\ sut = Repos
       /\ Call(t, "DeleteBook", "book", "Delete", [Loc0 EXCEPT !.id = id])
    \/ /\ InCrit(t, "DeleteBook", "book", "Delete")
       /\ loc[t].id = id
       /\ LET r == BookRepository_Delete(books, id)
          IN  /\ books' = r.store
              /\ IF r.err = "repository.ErrBookNotFound"
                 THEN Return(t, "service.ErrBookNotFound", NoVal)
                 ELSE Return(t, r.err, NoVal)
       /\ UNCHANGED <<authors, lists>>

(***************************************************************************)
(* service: ReadingListService                                             *)
(***************************************************************************)
CreateReadingList(t, list) ==
    \/ /\ ReadingList_Validate(list) # "nil"
       /\ sut = Repos
       /\ ReturnEarly(t, "CreateReadingList", "service.ErrInvalidReadingList")
    \/ /\ ReadingList_Validate(list) = "nil"
       /\ sut = Repos
       /\ Call(t, "CreateReadingList", "list", "Create", [Loc0 EXCEPT !.list = list])
    \/ /\ InCrit(t, "CreateReadingList", "list", "Create")
       /\ loc[t].list = list
       /\ LET r == ReadingListRepository_Create(lists, list, clock)
          IN  lists' = r.store /\ Return(t, r.err, r.ent)
       /\ UNCHANGED <<books, authors>>

UpdateReadingList(t, list) ==
    \/ /\ ReadingList_Validate(list) # "nil"
       /\ sut = Repos
       /\ ReturnEarly(t, "UpdateReadingList", "service.ErrInvalidReadingList")
    \/ /\ ReadingList_Validate(list) = "nil"
       /\ sut = Repos
       /\ Call(t, "UpdateReadingList", "list", "Update", [Loc0 EXCEPT !.list = list])
    \/ /\ InCrit(t, "UpdateReadingList", "list", "Update")
       /\ loc[t].list = list
       /\ LET r == ReadingListRepository_Update(lists, list, clock)
          IN  /\ lists' = r.store
              /\ IF r.err = "repository.ErrReadingListNotFound"
                 THEN Return(t, "service.ErrReadingListNotFound", NoVal)
                 ELSE Return(t, r.err, r.ent)
       /\ UNCHANGED <<books, authors>>

DeleteReadingList(t, id) ==
    \/ /\ sut = Repos
       /\ Call(t, "DeleteReadingList", "list", "Delete", [Loc0 EXCEPT !.id = id])
    \/ /\ InCrit(t, "DeleteReadingList", "list", "Delete")
       /\ loc[t].id = id
       /\ LET r == ReadingListRepository_Delete(lists, id)
          IN  /\ lists' = r.store
              /\ IF r.err = "repository.ErrReadingListNotFound"
                 THEN Return(t, "service.ErrReadingListNotFound", NoVal)
                 ELSE Return(t, r.err, NoVal)
       /\ UNCHANGED <<books, authors>>

AddBookToList(t, listID, bookID) ==
    \/ /\ sut = Repos
       /\ Call(t, "AddBookToList", "book", "Get",
               [Loc0 EXCEPT !.id = listID, !.bid = bookID])
    \/ /\ InCrit(t, "AddBookToList", "book", "Get")
       /\ loc[t].id = listID /\ loc[t].bid = bookID
       /\ LET r == BookRepository_Get(books, bookID)
          IN  IF r.err = "repository.ErrBookNotFound"
              THEN Return(t, "service.ErrBookNotFound", NoVal)
              ELSE Continue(t, "list", "Get", loc[t])
       /\ UNCHANGED <<books, authors, lists>>
    \/ /\ InCrit(t, "AddBookToList", "list", "Get")
       /\ loc[t].id = listID /\ loc[t].bid = bookID
       /\ LET r == ReadingListRepository_Get(lists, listID)
              a == ReadingList_AddBook(r.ent, bookID)
          IN  IF r.err = "repository.ErrReadingListNotFound"
              THEN Return(t, "service.ErrReadingListNotFound", NoVal)
              ELSE IF ~a.ok
              THEN Return(t, "service.ErrBookAlreadyInList", NoVal)
              ELSE Continue(t, "list", "Update", [loc[t] EXCEPT !.list = a.list])
       /\ UNCHANGED <<books, authors, lists>>
    \/ /\ InCrit(t, "AddBookToList", "list", "Update")
       /\ loc[t].id = listID /\ loc[t].bid = bookID
       /\ LET r == ReadingListRepository_Update(lists, loc[t].list, clock)
          IN  lists' = r.store /\ Return(t, r.err, NoVal)
       /\ UNCHANGED <<books, authors>>

RemoveBookFromList(t, listID, bookID) ==
    \/ /\ sut = Repos
       /\ Call(t, "RemoveBookFromList", "list", "Get",
               [Loc0 EXCEPT !.id = listID, !.bid = bookID])
    \/ /\ InCrit(t, "RemoveBookFromList", "list", "Get")
       /\ loc[t].id = listID /\ loc[t].bid = bookID
       /\ LET r == ReadingListRepository_Get(lists, listID)
              a == ReadingList_RemoveBook(r.ent, bookID)
          IN  IF r.err = "repository.ErrReadingListNotFound"
              THEN Return(t, "service.ErrReadingListNotFound", NoVal)
              ELSE IF ~a.ok
              THEN Return(t, "service.ErrBookNotInList", NoVal)
              ELSE Continue(t, "list", "Update", [loc[t] EXCEPT !.list = a.list])
       /\ UNCHANGED <<books, authors, lists>>
    \/ /\ InCrit(t, "RemoveBookFromList", "list", "Update")
       /\ loc[t].id = listID /\ loc[t].bid = bookID
       /\ LET r == ReadingListRepository_Update(lists, loc[t].list, clock)
          IN  lists' = r.store /\ Return(t, r.err, NoVal)
       /\ UNCHANGED <<books, authors>>

(***************************************************************************)
(* Specification of the book service under concurrent requests             *)
(***************************************************************************)
\* request bodies: zero timestamps; the one with the empty ISBN fails Validate
SvcBooks ==
    {Book(id, 1, isbn, "a1", 0, ZeroTime, ZeroTime) : id \in BookIDs, isbn \in ISBNs \ {""}}
    \cup {Book("b1", 1, "", "a1", 0, ZeroTime, ZeroTime)}

\* request bodies of the books that reading lists refer to, and one that
\* fails Validate
ListedBooks ==
    {Book("b1", 1, "x", "a1", 0, ZeroTime, ZeroTime),
     Book("b2", 1, "y", "a1", 0, ZeroTime, ZeroTime),
     Book("b1", 1, "", "a1", 0, ZeroTime, ZeroTime)}

InitSvc == InitCommon /\ sut = Repos

NextBooks ==
    \E t \in Threads :
        \/ RLock(t)
        \/ Lock(t)
        \/ \E book \in SvcBooks : CreateBook(t, book)
        \/ \E book \in SvcBooks : UpdateBook(t, book)
        \/ \E id \in BookIDs : DeleteBook(t, id)

SpecBooks == InitSvc /\ [][NextBooks]_vars

(***************************************************************************)
(* Specification of the services handling one request at a time            *)
(***************************************************************************)
RECURSIVE SeqsUpTo(_, _)
SeqsUpTo(S, n) ==
    IF n = 0 THEN {<<>>}
    ELSE LET shorter == SeqsUpTo(S, n - 1)
         IN  shorter \cup {Append(q, x) : q \in shorter, x \in S}

\* request bodies: book_ids omitted (nil) or any sequence of identifiers,
\* repeated ones included; the one with the empty name fails Validate
SvcLists ==
    {ReadingList(id, 1, 0, ids, ZeroTime, ZeroTime) :
        id \in ListIDs,
        ids \in {NilSlice} \cup {Slice(q) : q \in SeqsUpTo(BookIDs, MaxBookIDs)}}
    \cup {ReadingList("l1", 0, 0, NilSlice, ZeroTime, ZeroTime)}

SeqThread == "t1"

\* the book service, one request at a time
NextSeq ==
    \E t \in {SeqThread} :
        \/ RLock(t)
        \/ Lock(t)
        \/ \E book \in SvcBooks : CreateBook(t, book)
        \/ \E book \in SvcBooks : UpdateBook(t, book)
        \/ \E id \in BookIDs : DeleteBook(t, id)

SpecSeq == InitSvc /\ [][NextSeq]_vars

\* the reading-list service, one request at a time, over books that come and go
NextSeqLists ==
    \E t \in {SeqThread} :
        \/ RLock(t)
        \/ Lock(t)
        \/ \E book \in ListedBooks : CreateBook(t, book)
        \/ \E id \in BookIDs : DeleteBook(t, id)
        \/ \E list \in SvcLists : CreateReadingList(t, list)
        \/ \E list \in SvcLists : UpdateReadingList(t, list)
        \/ \E id \in ListIDs : DeleteReadingList(t, id)
        \/ \E id \in ListIDs, bid \in BookIDs : AddBookToList(t, id, bid)
        \/ \E id \in ListIDs, bid \in BookIDs : RemoveBookFromList(t, id, bid)

SpecSeqLists == InitSvc /\ [][NextSeqLists]_vars

(***************************************************************************)
(* Properties                                                              *)
(***************************************************************************)
\* goroutine t leaves the last critical section of its operation in this step
Returns(t) == pc[t] = "crit" /\ pc'[t] = "idle"

\* C1: no two stored books with different identifiers have the same ISBN,
\* whatever the interleaving of CreateBook, UpdateBook and DeleteBook
ISBNUnique ==
    \A i \in DOMAIN books, j \in DOMAIN books :
        i # j => books[i].ISBN # books[j].ISBN

\* C2: run alone, CreateBook of a valid book whose ISBN a stored book with
\* another identifier carries returns DuplicateISBN and stores nothing; with
\* an ISBN no stored book carries and a fresh identifier the book is created
CreateBookSequential ==
    [][\A t \in Threads : at[t].op = "CreateBook" =>
        LET book == loc[t].book
            taken == \E i \in DOMAIN books :
                        i # book.ID /\ books[i].ISBN = book.ISBN
            unused == \A i \in DOMAIN books : books[i].ISBN # book.ISBN
        IN  /\ pc'[t] # "idle" => books' = books
            /\ (pc'[t] = "idle" /\ taken) =>
                  /\ res'[t].err = "service.ErrDuplicateISBN"
                  /\ books' = books
            /\ (pc'[t] = "idle" /\ unused /\ book.ID \notin DOMAIN books) =>
                  /\ res'[t].err = "nil"
                  /\ DOMAIN books' = DOMAIN books \cup {book.ID}
                  /\ books'[book.ID].ISBN = book.ISBN
                  /\ \A i \in DOMAIN books : books'[i] = books[i]]_vars

CreateBookSequentialWitness ==
    \E t \in Threads :
        /\ res[t].op = "CreateBook" /\ res[t].err = "nil"
        /\ res[t].val.ID = "b2"
        /\ DOMAIN books = {"b1", "b2"}
        /\ books["b1"].ISBN # books["b2"].ISBN

\* C3: run alone, UpdateBook of a valid book returns DuplicateISBN, leaving
\* the store unchanged, exactly when a stored book with another identifier
\* has the same ISBN; updating a stored book that keeps its ISBN succeeds
UpdateBookSequential ==
    [][\A t \in Threads : at[t].op = "UpdateBook" =>
        LET book == loc[t].book
            taken == \E i \in DOMAIN books :
                        i # book.ID /\ books[i].ISBN = book.ISBN
        IN  /\ pc'[t] # "idle" => books' = books
            /\ pc'[t] = "idle" =>
                  /\ res'[t].err = "service.ErrDuplicateISBN" <=> taken
                  /\ res'[t].err = "service.ErrDuplicateISBN" => books' = books
                  /\ (book.ID \in DOMAIN books /\ books[book.ID].ISBN = book.ISBN) =>
                        /\ res'[t].err = "nil"
                        /\ books'[book.ID].ISBN = book.ISBN]_vars

UpdateBookSequentialWitness ==
    \E t \in Threads :
        /\ res[t].op = "UpdateBook"
        /\ res[t].err = "service.ErrDuplicateISBN"
        /\ DOMAIN books = {"b1", "b2"}

\* what Create of entity e must do to map m (m2 after the step)
CreatePost(t, m, m2, e, existsErr) ==
    IF e.ID \in DOMAIN m
    THEN res'[t].err = existsErr /\ m2 = m
    ELSE /\ res'[t].err = "nil"
         /\ DOMAIN m2 = DOMAIN m \cup {e.ID}
         /\ \A i \in DOMAIN m : m2[i] = m[i]

\* C4: in each repository, Create of a stored identifier returns
\* AlreadyExists and leaves every stored entity and the count unchanged;
\* Create of an identifier not stored succeeds and adds that one entry
CreateExistingRejected ==
    [][\A t \in Threads : (Returns(t) /\ at[t].call = "Create") =>
        /\ at[t].repo = "book" =>
              CreatePost(t, books, books', loc[t].book, "repository.ErrBookExists")
        /\ at[t].repo = "author" =>
              CreatePost(t, authors, authors', loc[t].author, "repository.ErrAuthorExists")
        /\ at[t].repo = "list" =>
              CreatePost(t, lists, lists', loc[t].list, "repository.ErrReadingListExists")]_vars

CreateExistingRejectedWitness ==
    \E t \in Threads :
        /\ res[t].op = "BookRepository.Create"
        /\ res[t].err = "repository.ErrBookExists"
        /\ "b1" \in DOMAIN books
        /\ books["b1"].ISBN = "y"

\* what Get, Update or Delete of identifier id must do to map m
MissingPost(t, m, m2, id, notFound) ==
    /\ id \notin DOMAIN m => (res'[t].err = notFound /\ m2 = m)
    /\ id \in DOMAIN m => res'[t].err = "nil"
    /\ at[t].call = "Update" => DOMAIN m2 = DOMAIN m
    /\ (at[t].call = "Delete" /\ id \in DOMAIN m) => id \notin DOMAIN m2

\* C5: in each repository, Get, Update and Delete of an identifier that is
\* not stored return NotFound and leave the store unchanged; Update never
\* inserts; after a successful Delete the identifier is not stored, so that
\* a Get of it returns NotFound
MissingIsNotFound ==
    [][\A t \in Threads :
          (Returns(t) /\ at[t].call \in {"Get", "Update", "Delete"}
                      /\ at[t].op \notin {"AddBookToList", "RemoveBookFromList"}) =>
        /\ at[t].repo = "book" =>
              MissingPost(t, books, books',
                          IF at[t].call = "Update" THEN loc[t].book.ID ELSE loc[t].id,
                          "repository.ErrBookNotFound")
        /\ at[t].repo = "author" =>
              MissingPost(t, authors, authors',
                          IF at[t].call = "Update" THEN loc[t].author.ID ELSE loc[t].id,
                          "repository.ErrAuthorNotFound")
        /\ at[t].repo = "list" =>
              MissingPost(t, lists, lists',
                          IF at[t].call = "Update" THEN loc[t].list.ID ELSE loc[t].id,
                          "repository.ErrReadingListNotFound")]_vars

MissingIsNotFoundWitness ==
    \E t \in Threads :
        /\ res[t].op = "AuthorRepository.Update"
        /\ res[t].err = "repository.ErrAuthorNotFound"
        /\ Cardinality(DOMAIN authors) = 1

\* created_at of the entities that map m keeps in this step
CreatedAtKept(m, m2) ==
    \A id \in DOMAIN m \cap DOMAIN m2 : m2[id].CreatedAt = m[id].CreatedAt

\* C6: while an entity stays stored, its created_at never changes, whatever
\* created_at the caller passes to Update
CreatedAtInvariant ==
    [][/\ CreatedAtKept(books, books')
       /\ CreatedAtKept(authors, authors')
       /\ CreatedAtKept(lists, lists')]_vars

CreatedAtInvariantWitness ==
    \E t \in Threads :
        /\ res[t].op = "BookRepository.Update" /\ res[t].err = "nil"
        /\ "b1" \in DOMAIN books
        /\ books["b1"].ISBN = "y"
        /\ books["b1"].CreatedAt < MaxClock
        /\ books["b1"].UpdatedAt = MaxClock

\* updated_at of the entities in map m2 after a step from map m
UpdatedAtAdvances(m, m2) ==
    \A id \in DOMAIN m2 :
        /\ id \notin DOMAIN m => m2[id].UpdatedAt = m2[id].CreatedAt
        /\ id \in DOMAIN m => /\ m2[id].UpdatedAt >= m[id].UpdatedAt
                              /\ m2[id].UpdatedAt >= m2[id].CreatedAt

\* C7: with a clock that never goes back, updated_at equals created_at
\* right after Create, and after every Update, concurrent ones included, it
\* is neither smaller than before nor smaller than created_at
UpdatedAtMonotone ==
    [][/\ UpdatedAtAdvances(books, books')
       /\ UpdatedAtAdvances(authors, authors')
       /\ UpdatedAtAdvances(lists, lists')]_vars

UpdatedAtMonotoneWitness ==
    \E t \in Threads, u \in Threads :
        /\ res[t].op = "AuthorRepository.Update" /\ res[t].err = "nil"
        /\ "a1" \in DOMAIN authors
        /\ authors["a1"].UpdatedAt > authors["a1"].CreatedAt
        /\ pc[u] = "wait" /\ at[u].op = "AuthorRepository.Update"
        /\ loc[u].author.ID = "a1"

\* C9: run alone, AddBookToList returns BookNotFound if the book is not
\* stored, else ReadingListNotFound if the list is not stored, else
\* BookAlreadyInList if the book is a member, each leaving every list
\* unchanged; otherwise the book is appended after the other members
AddBookToListSequential ==
    [][\A t \in Threads : at[t].op = "AddBookToList" =>
        LET l == loc[t].id
            b == loc[t].bid
        IN  /\ pc'[t] # "idle" => (lists' = lists /\ books' = books)
            /\ pc'[t] = "idle" =>
                  IF b \notin DOMAIN books
                  THEN res'[t].err = "service.ErrBookNotFound" /\ lists' = lists
                  ELSE IF l \notin DOMAIN lists
                  THEN res'[t].err = "service.ErrReadingListNotFound" /\ lists' = lists
                  ELSE IF b \in Range(lists[l].BookIDs.elems)
                  THEN res'[t].err = "service.ErrBookAlreadyInList" /\ lists' = lists
                  ELSE /\ res'[t].err = "nil"
                       /\ DOMAIN lists' = DOMAIN lists
                       /\ lists'[l].BookIDs.elems = Append(lists[l].BookIDs.elems, b)
                       /\ \A k \in DOMAIN lists \ {l} : lists'[k] = lists[k]]_vars

AddBookToListSequentialWitness ==
    \E t \in Threads :
        /\ res[t].op = "AddBookToList" /\ res[t].err = "nil"
        /\ "l1" \in DOMAIN lists
        /\ lists["l1"].BookIDs.elems = <<"b2", "b1">>
        /\ "l2" \in DOMAIN lists

\* s without any occurrence of x
Without(s, x) == LET keep(y) == y # x IN SelectSeq(s, keep)

\* C10: run alone, RemoveBookFromList returns ReadingListNotFound if the
\* list is not stored, else BookNotInList if the book is not a member, each
\* leaving every list unchanged; otherwise it stores the list without the
\* book, the other members in their previous order; whether the book is
\* stored in the book repository plays no part
RemoveBookFromListSequential ==
    [][\A t \in Threads : at[t].op = "RemoveBookFromList" =>
        LET l == loc[t].id
            b == loc[t].bid
        IN  /\ pc'[t] # "idle" => (lists' = lists /\ books' = books)
            /\ pc'[t] = "idle" =>
                  IF l \notin DOMAIN lists
                  THEN res'[t].err = "service.ErrReadingListNotFound" /\ lists' = lists
                  ELSE IF b \notin Range(lists[l].BookIDs.elems)
                  THEN res'[t].err = "service.ErrBookNotInList" /\ lists' = lists
                  ELSE /\ res'[t].err = "nil"
                       /\ DOMAIN lists' = DOMAIN lists
                       /\ lists'[l].BookIDs.elems = Without(lists[l].BookIDs.elems, b)
                       /\ \A k \in DOMAIN lists \ {l} : lists'[k] = lists[k]]_vars

(***************************************************************************)
(* The repositories at the level of pointers.  The maps hold *ReadingList  *)
(* and *Book; a ReadingList struct holds its BookIDs slice as the address  *)
(* of a backing array (0 for the nil slice).  Each operator below is one   *)
(* method's critical section, statement by statement, on the heap h and    *)
(* the pointer map m: it returns the heap, the map and the address of the  *)
(* struct handed back to the caller (0 when none).                         *)
(***************************************************************************)
Array(elems) == [kind |-> "array", elems |-> elems]

ListStruct(id, name, arr, c, u) ==
    [kind |-> "list", ID |-> id, Name |-> name, arr |-> arr,
     CreatedAt |-> c, UpdatedAt |-> u]

BookStruct(id, isbn, c, u) ==
    [kind |-> "book", ID |-> id, ISBN |-> isbn, CreatedAt |-> c, UpdatedAt |-> u]

\* the elements of the slice whose backing array is at address a
ElemsOf(h, a) == IF a = 0 THEN <<>> ELSE h[a].elems

\* copy := *list; copy.BookIDs = make(...); copy(...): the array first, then
\* the struct that points to it; the struct's address is Len of the result
CopyList(h, p) ==
    Append(Append(h, Array(ElemsOf(h, h[p].arr))),
           [h[p] EXCEPT !.arr = Len(h) + 1])

\* result := *book
CopyBook(h, p) == Append(h, h[p])

Heap_ListRepo_Create(h, m, p, now) ==
    IF h[p].ID \in DOMAIN m
    THEN [heap |-> h, ptrs |-> m, out |-> 0]
    ELSE LET h1 == [h EXCEPT ![p].CreatedAt = now, ![p].UpdatedAt = now]
             h2 == IF h1[p].arr = 0
                   THEN Append([h1 EXCEPT ![p].arr = Len(h1) + 1], Array(<<>>))
                   ELSE h1
             h3 == CopyList(h2, p)
         IN  [heap |-> h3, ptrs |-> Put(m, h[p].ID, Len(h3)), out |-> 0]

\* Get that copies the struct and keeps its slice
Heap_ListRepo_Get_Shallow(h, m, id) ==
    IF id \notin DOMAIN m
    THEN [heap |-> h, ptrs |-> m, out |-> 0]
    ELSE LET h1 == Append(Append(h, Array(<<>>)), h[m[id]])
         IN  [heap |-> h1, ptrs |-> m, out |-> Len(h1)]

Heap_ListRepo_Get(h, m, id) ==
    IF id \notin DOMAIN m
    THEN [heap |-> h, ptrs |-> m, out |-> 0]
    ELSE LET h1 == CopyList(h, m[id])
         IN  [heap |-> h1, ptrs |-> m, out |-> Len(h1)]

Heap_ListRepo_Update(h, m, p, now) ==
    IF h[p].ID \notin DOMAIN m
    THEN [heap |-> h, ptrs |-> m, out |-> 0]
    ELSE LET h1 == [h EXCEPT ![p].CreatedAt = h[m[h[p].ID]].CreatedAt,
                             ![p].UpdatedAt = now]
             h2 == CopyList(h1, p)
         IN  [heap |-> h2, ptrs |-> Put(m, h[p].ID, Len(h2)), out |-> 0]

\* the loop of List and FindByBook over the stored lists ids (map order is
\* unspecified: any order): the heap with a copy of each, and their addresses
RECURSIVE CopyLists(_, _, _, _)
CopyLists(h, m, ids, outs) ==
    IF ids = {} THEN [heap |-> h, ptrs |-> m, outs |-> outs]
    ELSE LET id == CHOOSE i \in ids : TRUE
             h1 == CopyList(h, m[id])
         IN  CopyLists(h1, m, ids \ {id}, outs \cup {Len(h1)})

Heap_ListRepo_List(h, m) == CopyLists(h, m, DOMAIN m, {})

Heap_ListRepo_FindByBook(h, m, bookID) ==
    CopyLists(h, m,
              {id \in DOMAIN m : IndexOf(ElemsOf(h, h[m[id]].arr), bookID) # 0}, {})

Heap_BookRepo_Create(h, m, p, now) ==
    IF h[p].ID \in DOMAIN m
    THEN [heap |-> h, ptrs |-> m, out |-> 0]
    ELSE LET h1 == [h EXCEPT ![p].CreatedAt = now, ![p].UpdatedAt = now]
             h2 == CopyBook(h1, p)
         IN  [heap |-> h2, ptrs |-> Put(m, h[p].ID, Len(h2)), out |-> 0]

Heap_BookRepo_Get(h, m, id) ==
    IF id \notin DOMAIN m
    THEN [heap |-> h, ptrs |-> m, out |-> 0]
    ELSE LET h1 == CopyBook(h, m[id])
         IN  [heap |-> h1, ptrs |-> m, out |-> Len(h1)]

Heap_BookRepo_Update(h, m, p, now) ==
    IF h[p].ID \notin DOMAIN m
    THEN [heap |-> h, ptrs |-> m, out |-> 0]
    ELSE LET h1 == [h EXCEPT ![p].CreatedAt = h[m[h[p].ID]].CreatedAt,
                             ![p].UpdatedAt = now]
             h2 == CopyBook(h1, p)
         IN  [heap |-> h2, ptrs |-> Put(m, h[p].ID, Len(h2)), out |-> 0]

(***************************************************************************)
(* Callers of the pointer-level repositories                               *)
(***************************************************************************)
valueVars == <<clock, books, authors, lists, mu, pc, at, loc, res, sut, mw>>

\* a caller builds a ReadingList (a decoded body or a literal)
Caller_NewList(id, name, ids) ==
    /\ Len(heap) + 2 <= MaxHeap
    /\ IF ids.isNil
       THEN heap' = Append(heap, ListStruct(id, name, 0, ZeroTime, ZeroTime))
       ELSE heap' = Append(Append(heap, Array(ids.elems)),
                           ListStruct(id, name, Len(heap) + 1, ZeroTime, ZeroTime))
    /\ held' = held \cup {Len(heap')}
    /\ UNCHANGED <<listPtrs, bookPtrs, valueVars>>

\* a caller builds a Book
Caller_NewBook(id, isbn) ==
    /\ Len(heap) + 1 <= MaxHeap
    /\ heap' = Append(heap, BookStruct(id, isbn, ZeroTime, ZeroTime))
    /\ held' = held \cup {Len(heap')}
    /\ UNCHANGED <<listPtrs, bookPtrs, valueVars>>

Caller_ListCreate(p) ==
    /\ p \in held /\ heap[p].kind = "list"
    /\ Len(heap) + 3 <= MaxHeap
    /\ LET r == Heap_ListRepo_Create(heap, listPtrs, p, clock)
       IN  heap' = r.heap /\ listPtrs' = r.ptrs
    /\ UNCHANGED <<held, bookPtrs, valueVars>>

Caller_ListGet(id) ==
    /\ Len(heap) + 2 <= MaxHeap
    /\ LET r == Heap_ListRepo_Get(heap, listPtrs, id)
       IN  /\ r.out # 0
           /\ heap' = r.heap /\ held' = held \cup {r.out}
    /\ UNCHANGED <<listPtrs, bookPtrs, valueVars>>

Caller_ListUpdate(p) ==
    /\ p \in held /\ heap[p].kind = "list"
    /\ Len(heap) + 2 <= MaxHeap
    /\ LET r == Heap_ListRepo_Update(heap, listPtrs, p, clock)
       IN  heap' = r.heap /\ listPtrs' = r.ptrs
    /\ UNCHANGED <<held, bookPtrs, valueVars>>

Caller_ListList ==
    /\ Len(heap) + 2 * Cardinality(DOMAIN listPtrs) <= MaxHeap
    /\ LET r == Heap_ListRepo_List(heap, listPtrs)
       IN  /\ r.outs # {}
           /\ heap' = r.heap /\ held' = held \cup r.outs
    /\ UNCHANGED <<listPtrs, bookPtrs, valueVars>>

Caller_ListFindByBook(bookID) ==
    /\ Len(heap) + 2 * Cardinality(DOMAIN listPtrs) <= MaxHeap
    /\ LET r == Heap_ListRepo_FindByBook(heap, listPtrs, bookID)
       IN  /\ r.outs # {}
           /\ heap' = r.heap /\ held' = held \cup r.outs
    /\ UNCHANGED <<listPtrs, bookPtrs, valueVars>>

Caller_BookCreate(p) ==
    /\ p \in held /\ heap[p].kind = "book"
    /\ Len(heap) + 1 <= MaxHeap
    /\ LET r == Heap_BookRepo_Create(heap, bookPtrs, p, clock)
       IN  heap' = r.heap /\ bookPtrs' = r.ptrs
    /\ UNCHANGED <<held, listPtrs, valueVars>>

Caller_BookGet(id) ==
    /\ Len(heap) + 1 <= MaxHeap
    /\ LET r == Heap_BookRepo_Get(heap, bookPtrs, id)
       IN  /\ r.out # 0
           /\ heap' = r.heap /\ held' = held \cup {r.out}
    /\ UNCHANGED <<listPtrs, bookPtrs, valueVars>>

Caller_BookUpdate(p) ==
    /\ p \in held /\ heap[p].kind = "book"
    /\ Len(heap) + 1 <= MaxHeap
    /\ LET r == Heap_BookRepo_Update(heap, bookPtrs, p, clock)
       IN  heap' = r.heap /\ bookPtrs' = r.ptrs
    /\ UNCHANGED <<held, listPtrs, valueVars>>

\* a caller writes through a pointer it holds: a field of the struct, or an
\* element of the array its BookIDs slice points to
Caller_Write(p) ==
    /\ p \in held
    /\ \/ /\ heap[p].kind = "list"
          /\ heap' = [heap EXCEPT ![p].Name = 3 - @]
       \/ /\ heap[p].kind = "list" /\ heap[p].arr # 0
          /\ \E i \in DOMAIN heap[heap[p].arr].elems, x \in BookIDs :
                /\ heap[heap[p].arr].elems[i] # x
                /\ heap' = [heap EXCEPT ![heap[p].arr].elems[i] = x]
       \/ /\ heap[p].kind = "book"
          /\ \E x \in ISBNs \ {"", heap[p].ISBN} :
                heap' = [heap EXCEPT ![p].ISBN = x]
    /\ UNCHANGED <<held, listPtrs, bookPtrs, valueVars>>

InitAlias == InitCommon /\ sut = Repos

NextAlias ==
    \/ \E ids \in {NilSlice, Slice(<<"b1">>), Slice(<<"b1", "b2">>)} :
          Caller_NewList("l1", 1, ids)
    \/ Caller_NewBook("b1", "x")
    \/ \E p \in held : Caller_ListCreate(p)
    \/ \E p \in held : Caller_ListUpdate(p)
    \/ \E p \in held : Caller_BookCreate(p)
    \/ \E p \in held : Caller_BookUpdate(p)
    \/ \E p \in held : Caller_Write(p)
    \/ Caller_ListGet("l1")
    \/ Caller_ListList
    \/ Caller_ListFindByBook("b1")
    \/ Caller_BookGet("b1")

SpecAlias == InitAlias /\ [][NextAlias]_vars

\* what Get, List and Find read: the stored entities, slices followed
ListView ==
    [id \in DOMAIN listPtrs |->
        [heap[listPtrs[id]] EXCEPT !.arr = ElemsOf(heap, @)]]

BookView == [id \in DOMAIN bookPtrs |-> heap[bookPtrs[id]]]

\* C8: stored state never aliases caller state: a step in which no
\* repository replaces a map entry, above all a caller's write to a struct
\* it passed to Create or Update or received from Get, List or Find, or to
\* an element of that struct's BookIDs, leaves every stored entity as it was
NoAliasing ==
    [][(listPtrs' = listPtrs /\ bookPtrs' = bookPtrs) =>
          (ListView' = ListView /\ BookView' = BookView)]_vars

NoAliasingWitness ==
    \E p \in held :
        /\ heap[p].kind = "list"
        /\ "l1" \in DOMAIN listPtrs
        /\ p > listPtrs["l1"]
        /\ heap[p].CreatedAt # ZeroTime
        /\ ElemsOf(heap, heap[listPtrs["l1"]].arr) = <<"b1", "b2">>
        /\ ElemsOf(heap, heap[p].arr) = <<"b2", "b2">>

\* C11: in every state reached through the ReadingListService operations,
\* no stored reading list holds a book identifier more than once
BookIDsNoDuplicates ==
    \A id \in DOMAIN lists :
        \A i, j \in DOMAIN lists[id].BookIDs.elems :
            i # j => lists[id].BookIDs.elems[i] # lists[id].BookIDs.elems[j]

\* the error values declared by the repository package
RepositoryErrors ==
    {"repository.ErrBookNotFound", "repository.ErrBookExists",
     "repository.ErrAuthorNotFound", "repository.ErrAuthorExists",
     "repository.ErrReadingListNotFound", "repository.ErrReadingListExists"}

\* C12: no service operation returns a repository error value; every error
\* a service operation returns is one of the service package's kinds
ServiceErrorsOnly ==
    \A t \in Threads : res[t].err \notin RepositoryErrors

(***************************************************************************)
(* service: the read operations and AuthorService                          *)
(***************************************************************************)
GetBook(t, id) ==
    \/ /\ sut = Repos
       /\ Call(t, "GetBook", "book", "Get", [Loc0 EXCEPT !.id = id])
    \/ /\ InCrit(t, "GetBook", "book", "Get")
       /\ loc[t].id = id
       /\ LET r == BookRepository_Get(books, id)
          IN  IF r.err = "repository.ErrBookNotFound"
              THEN Return(t, "service.ErrBookNotFound", NoVal)
              ELSE Return(t, r.err, r.ent)
       /\ UNCHANGED <<books, authors, lists>>

ListBooks(t) ==
    \/ /\ sut = Repos
       /\ Call(t, "ListBooks", "book", "List", Loc0)
    \/ /\ InCrit(t, "ListBooks", "book", "List")
       /\ Return(t, "nil", BookRepository_List(books))
       /\ UNCHANGED <<books, authors, lists>>

CreateAuthor(t, author) ==
    \/ /\ Author_Validate(author) # "nil"
       /\ sut = Repos
       /\ ReturnEarly(t, "CreateAuthor", "service.ErrInvalidAuthor")
    \/ /\ Author_Validate(author) = "nil"
       /\ sut = Repos
       /\ Call(t, "CreateAuthor", "author", "Create", [Loc0 EXCEPT !.author = author])
    \/ /\ InCrit(t, "CreateAuthor", "author", "Create")
       /\ loc[t].author = author
       /\ LET r == AuthorRepository_Create(authors, author, clock)
          IN  authors' = r.store /\ Return(t, r.err, r.ent)
       /\ UNCHANGED <<books, lists>>

ListAuthors(t) ==
    \/ /\ sut = Repos
       /\ Call(t, "ListAuthors", "author", "List", Loc0)
    \/ /\ InCrit(t, "ListAuthors", "author", "List")
       /\ Return(t, "nil", AuthorRepository_List(authors))
       /\ UNCHANGED <<books, authors, lists>>

GetAuthorsByCountry(t, country) ==
    \/ /\ sut = Repos
       /\ Call(t, "GetAuthorsByCountry", "author", "FindByCountry",
               [Loc0 EXCEPT !.country = country])
    \/ /\ InCrit(t, "GetAuthorsByCountry", "author", "FindByCountry")
       /\ loc[t].country = country
       /\ Return(t, "nil", AuthorRepository_FindByCountry(authors, country))
       /\ UNCHANGED <<books, authors, lists>>

ListReadingLists(t) ==
    \/ /\ sut = Repos
       /\ Call(t, "ListReadingLists", "list", "List", Loc0)
    \/ /\ InCrit(t, "ListReadingLists", "list", "List")
       /\ Return(t, "nil", ReadingListRepository_List(lists))
       /\ UNCHANGED <<books, authors, lists>>

(***************************************************************************)
(* handler: a request body is undecodable JSON or decodes to an entity; a  *)
(* handler either answers before calling the service or calls it, and its  *)
(* answer is computed from what the service returned.  res[t] holds the    *)
(* outcome the handler sees (DecodeError when it never called the service),*)
(* and the ..._Response operators are the handlers' branches on it.        *)
(***************************************************************************)
BadJSON == [ok |-> FALSE]

Decoded(v) == [ok |-> TRUE, v |-> v]

\* the error of json.NewDecoder(r.Body).Decode
DecodeError == "json.Decode"

\* err.Error(): the text given to errors.New (for the wrapped validation
\* errors, the text before the colon)
ErrorText(err) ==
    CASE err = "repository.ErrBookNotFound" -> "book not found"
      [] err = "repository.ErrBookExists" -> "book already exists"
      [] err = "repository.ErrAuthorNotFound" -> "author not found"
      [] err = "repository.ErrAuthorExists" -> "author already exists"
      [] err = "repository.ErrReadingListNotFound" -> "reading list not found"
      [] err = "repository.ErrReadingListExists" -> "reading list already exists"
      [] err = "service.ErrInvalidBook" -> "invalid book data"
      [] err = "service.ErrBookNotFound" -> "book not found"
      [] err = "service.ErrDuplicateISBN" -> "book with this ISBN already exists"
      [] err = "service.ErrInvalidAuthor" -> "invalid author data"
      [] err = "service.ErrAuthorNotFound" -> "author not found"
      [] err = "service.ErrInvalidReadingList" -> "invalid reading list data"
      [] err = "service.ErrReadingListNotFound" -> "reading list not found"
      [] err = "service.ErrBookAlreadyInList" -> "book already in reading list"
      [] err = "service.ErrBookNotInList" -> "book not in reading list"
      [] OTHER -> err

\* json.NewEncoder(w).Encode(data): a nil slice encodes as null, any other
\* slice as an array, a struct or map as an object
Encode(data) ==
    IF "isNil" \in DOMAIN data
    THEN IF data.isNil THEN [json |-> "null"]
         ELSE [json |-> "array", items |-> data.elems]
    ELSE [json |-> "object", value |-> data]

respondJSON(status, data) == [status |-> status, body |-> Encode(data)]

respondError(status, message) == respondJSON(status, [error |-> message])

\* http.Error: a plain-text body
httpError(message, status) ==
    [status |-> status, body |-> [json |-> "text", value |-> message]]

\* w.WriteHeader(status) alone
WriteHeader(status) == [status |-> status, body |-> [json |-> "none"]]

(***************************************************************************)
(* handler: BookHandler                                                    *)
(***************************************************************************)
BookHandler_listBooks(t) == ListBooks(t)

BookHandler_createBook(t, body) ==
    \/ /\ ~body.ok
       /\ sut = Repos
       /\ ReturnEarly(t, "CreateBook", DecodeError)
    \/ /\ body.ok
       /\ CreateBook(t, body.v)

BookHandler_getBook(t, id) == GetBook(t, id)

BookHandler_updateBook(t, id, body) ==
    \/ /\ ~body.ok
       /\ sut = Repos
       /\ ReturnEarly(t, "UpdateBook", DecodeError)
    \/ /\ body.ok
       /\ UpdateBook(t, [body.v EXCEPT !.ID = id])

BookHandler_deleteBook(t, id) == DeleteBook(t, id)

BookHandler_handleBooks(t, method, body) ==
    \/ method = "GET" /\ BookHandler_listBooks(t)
    \/ method = "POST" /\ BookHandler_createBook(t, body)
    \/ /\ method \notin {"GET", "POST"}
       /\ sut = Repos
       /\ ReturnEarly(t, "handleBooks", "Method not allowed")

BookHandler_handleBook(t, method, id, body) ==
    \/ /\ id = ""
       /\ sut = Repos
       /\ ReturnEarly(t, "handleBook", "Book ID required")
    \/ id # "" /\ method = "GET" /\ BookHandler_getBook(t, id)
    \/ id # "" /\ method = "PUT" /\ BookHandler_updateBook(t, id, body)
    \/ id # "" /\ method = "DELETE" /\ BookHandler_deleteBook(t, id)
    \/ /\ id # "" /\ method \notin {"GET", "PUT", "DELETE"}
       /\ sut = Repos
       /\ ReturnEarly(t, "handleBook", "Method not allowed")

listBooks_Response(r) == respondJSON(200, r.val)

\* createBook without the DuplicateISBN branch
createBook_Response_NoConflict(r) ==
    IF r.err = DecodeError THEN respondError(400, "Invalid JSON")
    ELSE IF r.err = "service.ErrInvalidBook" THEN respondError(400, ErrorText(r.err))
    ELSE IF r.err # "nil" THEN respondError(500, "Failed to create book")
    ELSE respondJSON(201, r.val)

createBook_Response(r) ==
    IF r.err = DecodeError THEN respondError(400, "Invalid JSON")
    ELSE IF r.err = "service.ErrInvalidBook" THEN respondError(400, ErrorText(r.err))
    ELSE IF r.err = "service.ErrDuplicateISBN"
    THEN respondError(409, "Book with this ISBN already exists")
    ELSE IF r.err # "nil" THEN respondError(500, "Failed to create book")
    ELSE respondJSON(201, r.val)

getBook_Response(r) ==
    IF r.err = "service.ErrBookNotFound" THEN respondError(404, "Book not found")
    ELSE IF r.err # "nil" THEN respondError(500, "Failed to get book")
    ELSE respondJSON(200, r.val)

updateBook_Response(r) ==
    IF r.err = DecodeError THEN respondError(400, "Invalid JSON")
    ELSE IF r.err = "service.ErrBookNotFound" THEN respondError(404, "Book not found")
    ELSE IF r.err = "service.ErrInvalidBook" THEN respondError(400, ErrorText(r.err))
    ELSE IF r.err = "service.ErrDuplicateISBN"
    THEN respondError(409, "Book with this ISBN already exists")
    ELSE IF r.err # "nil" THEN respondError(500, "Failed to update book")
    ELSE respondJSON(200, r.val)

deleteBook_Response(r) ==
    IF r.err = "service.ErrBookNotFound" THEN respondError(404, "Book not found")
    ELSE IF r.err # "nil" THEN respondError(500, "Failed to delete book")
    ELSE WriteHeader(204)

handleBooks_Response(r) == httpError(r.err, 405)

handleBook_Response(r) ==
    IF r.err = "Book ID required" THEN httpError(r.err, 400)
    ELSE httpError(r.err, 405)

(***************************************************************************)
(* handler: AuthorHandler and ReadingListHandler                           *)
(***************************************************************************)
\* r.URL.Query().Get("country") is "" when the parameter is absent
AuthorHandler_listAuthors(t, country) ==
    \/ country # "" /\ GetAuthorsByCountry(t, country)
    \/ country = "" /\ ListAuthors(t)

AuthorHandler_createAuthor(t, body) ==
    \/ /\ ~body.ok
       /\ sut = Repos
       /\ ReturnEarly(t, "CreateAuthor", DecodeError)
    \/ /\ body.ok
       /\ CreateAuthor(t, body.v)

listAuthors_Response(r) == respondJSON(200, r.val)

\* createAuthor answering an unmapped error with the error's own text
createAuthor_Response_ErrorText(r) ==
    IF r.err = DecodeError THEN respondError(400, "Invalid JSON")
    ELSE IF r.err = "service.ErrInvalidAuthor" THEN respondError(400, ErrorText(r.err))
    ELSE IF r.err # "nil" THEN respondError(500, ErrorText(r.err))
    ELSE respondJSON(201, r.val)

createAuthor_Response(r) ==
    IF r.err = DecodeError THEN respondError(400, "Invalid JSON")
    ELSE IF r.err = "service.ErrInvalidAuthor" THEN respondError(400, ErrorText(r.err))
    ELSE IF r.err # "nil" THEN respondError(500, "Failed to create author")
    ELSE respondJSON(201, r.val)

ReadingListHandler_listReadingLists(t) == ListReadingLists(t)

ReadingListHandler_createReadingList(t, body) ==
    \/ /\ ~body.ok
       /\ sut = Repos
       /\ ReturnEarly(t, "CreateReadingList", DecodeError)
    \/ /\ body.ok
       /\ CreateReadingList(t, body.v)

ReadingListHandler_addBookToList(t, listID, bookID) ==
    AddBookToList(t, listID, bookID)

ReadingListHandler_removeBookFromList(t, listID, bookID) ==
    RemoveBookFromList(t, listID, bookID)

listReadingLists_Response(r) == respondJSON(200, r.val)

createReadingList_Response(r) ==
    IF r.err = DecodeError THEN respondError(400, "Invalid JSON")
    ELSE IF r.err = "service.ErrInvalidReadingList"
    THEN respondError(400, ErrorText(r.err))
    ELSE IF r.err # "nil" THEN respondError(500, "Failed to create reading list")
    ELSE respondJSON(201, r.val)

addBookToList_Response(r) ==
    IF r.err = "service.ErrReadingListNotFound"
    THEN respondError(404, "Reading list not found")
    ELSE IF r.err = "service.ErrBookNotFound" THEN respondError(404, "Book not found")
    ELSE IF r.err = "service.ErrBookAlreadyInList"
    THEN respondError(409, "Book already in list")
    ELSE IF r.err # "nil" THEN respondError(500, "Failed to add book to list")
    ELSE WriteHeader(204)

removeBookFromList_Response(r) ==
    IF r.err = "service.ErrReadingListNotFound"
    THEN respondError(404, "Reading list not found")
    ELSE IF r.err = "service.ErrBookNotInList" THEN respondError(404, "Book not in list")
    ELSE IF r.err # "nil" THEN respondError(500, "Failed to remove book from list")
    ELSE WriteHeader(204)

\* the response written for the request goroutine t handled last
Response(t) ==
    CASE res[t].op = "ListBooks" -> listBooks_Response(res[t])
      [] res[t].op = "CreateBook" -> createBook_Response(res[t])
      [] res[t].op = "GetBook" -> getBook_Response(res[t])
      [] res[t].op = "UpdateBook" -> updateBook_Response(res[t])
      [] res[t].op = "DeleteBook" -> deleteBook_Response(res[t])
      [] res[t].op = "handleBooks" -> handleBooks_Response(res[t])
      [] res[t].op = "handleBook" -> handleBook_Response(res[t])
      [] res[t].op \in {"ListAuthors", "GetAuthorsByCountry"} ->
            listAuthors_Response(res[t])
      [] res[t].op = "CreateAuthor" -> createAuthor_Response(res[t])
      [] res[t].op = "ListReadingLists" -> listReadingLists_Response(res[t])
      [] res[t].op = "CreateReadingList" -> createReadingList_Response(res[t])
      [] res[t].op = "AddBookToList" -> addBookToList_Response(res[t])
      [] res[t].op = "RemoveBookFromList" -> removeBookFromList_Response(res[t])
      [] OTHER -> WriteHeader(0)

(***************************************************************************)
(* Specification of the book endpoints under concurrent requests           *)
(***************************************************************************)
\* request bodies of the book endpoints: undecodable, failing Validate
\* (empty ISBN), and valid ones
HttpBookBodies ==
    {BadJSON, Decoded(Book("b1", 1, "", "a1", 0, ZeroTime, ZeroTime))}
    \cup {Decoded(Book(id, 1, "x", "a1", 0, ZeroTime, ZeroTime)) : id \in BookIDs}
    \cup {Decoded(Book("b1", 1, "y", "a1", 0, ZeroTime, ZeroTime))}

NextHttpBooks ==
    \E t \in Threads :
        \/ RLock(t)
        \/ Lock(t)
        \/ \E method \in {"GET", "POST", "DELETE"}, body \in HttpBookBodies :
              BookHandler_handleBooks(t, method, body)
        \/ \E method \in {"GET", "PUT", "DELETE", "POST"},
              id \in BookIDs \cup {""}, body \in HttpBookBodies :
              BookHandler_handleBook(t, method, id, body)

SpecHttpBooks == InitSvc /\ [][NextHttpBooks]_vars

(***************************************************************************)
(* Properties of the handlers                                              *)
(***************************************************************************)
\* goroutine t takes a step
Acts(t) == <<pc[t], at[t], res[t]>>' # <<pc[t], at[t], res[t]>>

\* goroutine t's handler returns in this step: its response is Response(t)'
Answers(t) == res'[t] # res[t] /\ res'[t].op # ""

\* C13: the status of a book endpoint follows from the service outcome: POST
\* answers 201 on success (the book is then stored), 400 on undecodable JSON
\* or failed validation, 409 on DuplicateISBN; GET answers 200 (with the
\* stored book) or 404; PUT answers 200, 400, 404 or 409; DELETE answers 204
\* (the book is then gone) or 404; and no step of a request answered with a
\* 4xx status changes the book store
BookStatusFromOutcome ==
    [][\A t \in Threads :
        /\ (Acts(t) /\ ~Answers(t)) => books' = books
        /\ Answers(t) =>
            LET r == res'[t]
                status == Response(t)'.status
            IN  /\ status \in 400..499 => books' = books
                /\ r.op = "CreateBook" =>
                      /\ r.err = "nil" <=> status = 201
                      /\ status = 201 =>
                            /\ loc[t].book.ID \in DOMAIN books'
                            /\ books'[loc[t].book.ID] = r.val
                            /\ Response(t)'.body = [json |-> "object", value |-> r.val]
                      /\ r.err \in {DecodeError, "service.ErrInvalidBook"} => status = 400
                      /\ r.err = "service.ErrDuplicateISBN" <=> status = 409
                /\ r.op = "GetBook" =>
                      /\ status \in {200, 404}
                      /\ status = 200 <=> loc[t].id \in DOMAIN books
                      /\ status = 200 =>
                            Response(t)'.body =
                               [json |-> "object", value |-> books[loc[t].id]]
                /\ r.op = "UpdateBook" =>
                      /\ status \in {200, 400, 404, 409}
                      /\ r.err = "nil" <=> status = 200
                      /\ r.err \in {DecodeError, "service.ErrInvalidBook"} <=> status = 400
                      /\ r.err = "service.ErrBookNotFound" <=> status = 404
                      /\ r.err = "service.ErrDuplicateISBN" <=> status = 409
                /\ r.op = "DeleteBook" =>
                      /\ status \in {204, 404}
                      /\ status = 204 <=> loc[t].id \in DOMAIN books
                      /\ status = 204 => loc[t].id \notin DOMAIN books']_vars

BookStatusFromOutcomeWitness ==
    \E t, u \in Threads :
        /\ res[t].op = "UpdateBook" /\ Response(t).status = 409
        /\ res[u].op = "DeleteBook" /\ Response(u).status = 404
        /\ DOMAIN books = {"b1", "b2"}

(***************************************************************************)
(* Specification of the list membership endpoints, one request at a time   *)
(***************************************************************************)
HttpListBodies ==
    {BadJSON} \cup {Decoded(list) : list \in {l \in SvcLists : l.ID = "l1"}}

NextHttpLists ==
    \E t \in {SeqThread} :
        \/ RLock(t)
        \/ Lock(t)
        \/ \E body \in {BadJSON} \cup {Decoded(book) : book \in ListedBooks} :
              BookHandler_createBook(t, body)
        \/ \E body \in HttpListBodies : ReadingListHandler_createReadingList(t, body)
        \/ \E id \in ListIDs, bid \in BookIDs :
              ReadingListHandler_addBookToList(t, id, bid)
        \/ \E id \in ListIDs, bid \in BookIDs :
              ReadingListHandler_removeBookFromList(t, id, bid)

SpecHttpLists == InitSvc /\ [][NextHttpLists]_vars

\* C14: one request at a time, for a stored list L and a stored book B,
\* POST /api/lists/L/books/B answers 204 exactly when B was not a member, and
\* B is a member afterwards, and 409 when it was; DELETE answers 204 exactly
\* when B was a member, and B is not a member afterwards, and 404 otherwise
MembershipStatus ==
    [][\A t \in {SeqThread} :
        (/\ Answers(t)
         /\ loc[t].id \in DOMAIN lists
         /\ loc[t].bid \in DOMAIN books) =>
            LET L == loc[t].id
                B == loc[t].bid
                status == Response(t)'.status
                was == ReadingList_ContainsBook(lists[L], B)
                is == ReadingList_ContainsBook(lists'[L], B)
            IN  /\ res'[t].op = "AddBookToList" =>
                      /\ status = 204 <=> ~was
                      /\ status = 204 => is
                      /\ was => status = 409
                /\ res'[t].op = "RemoveBookFromList" =>
                      /\ status = 204 <=> was
                      /\ status = 204 => ~is
                      /\ ~was => status = 404]_vars

(***************************************************************************)
(* Specification of the create and list endpoints, one request at a time   *)
(***************************************************************************)
\* request bodies: undecodable, failing Validate, and valid ones that
\* repeat or change the ISBN (country) under one identifier
HttpSeqBooks ==
    {BadJSON} \cup
    {Decoded(Book("b1", 1, isbn, "a1", 0, ZeroTime, ZeroTime)) : isbn \in ISBNs}

HttpSeqAuthors ==
    {BadJSON, Decoded(Author("a1", 0, 0, "PL", ZeroTime, ZeroTime))} \cup
    {Decoded(Author("a1", 1, 0, c, ZeroTime, ZeroTime)) : c \in Countries}

HttpSeqLists ==
    {BadJSON, Decoded(ReadingList("l1", 0, 0, NilSlice, ZeroTime, ZeroTime)),
     Decoded(ReadingList("l1", 1, 0, NilSlice, ZeroTime, ZeroTime)),
     Decoded(ReadingList("l1", 1, 0, Slice(<<"b1">>), ZeroTime, ZeroTime))}

NextHttpSeq ==
    \E t \in {SeqThread} :
        \/ RLock(t)
        \/ Lock(t)
        \/ \E body \in HttpSeqBooks : BookHandler_createBook(t, body)
        \/ \E body \in HttpSeqAuthors : AuthorHandler_createAuthor(t, body)
        \/ \E body \in HttpSeqLists : ReadingListHandler_createReadingList(t, body)
        \/ BookHandler_listBooks(t)
        \/ \E country \in Countries \cup {""} : AuthorHandler_listAuthors(t, country)
        \/ ReadingListHandler_listReadingLists(t)

SpecHttpSeq == InitSvc /\ [][NextHttpSeq]_vars

\* goroutine t answers a POST /api/books whose valid body has the identifier
\* and the ISBN of a stored book
RepostsStoredBook(t) ==
    /\ Answers(t)
    /\ at[t].op = "CreateBook"
    /\ loc[t].book.ID \in DOMAIN books
    /\ books[loc[t].book.ID].ISBN = loc[t].book.ISBN

\* C15 as stated: the second POST of the same valid book (same id, same
\* ISBN) is rejected by the identifier check (repository AlreadyExists), not
\* by the ISBN-uniqueness check (DuplicateISBN)
RepostRejectedByIdentifier ==
    [][\A t \in Threads : RepostsStoredBook(t) =>
          res'[t].err = "repository.ErrBookExists"]_vars

\* C15 amended: the second POST of the same valid book (same id, same ISBN)
\* is rejected by the ISBN-uniqueness check: the service returns
\* DuplicateISBN before the repository is asked to create, the answer is
\* 409, and the store is unchanged
RepostRejectedByISBN ==
    [][\A t \in Threads : RepostsStoredBook(t) =>
          /\ res'[t].err = "service.ErrDuplicateISBN"
          /\ at[t].call = "List"
          /\ Response(t)'.status = 409
          /\ books' = books]_vars

RepostRejectedByISBNWitness ==
    \E t \in Threads :
        /\ res[t].op = "CreateBook"
        /\ res[t].err = "service.ErrDuplicateISBN"
        /\ DOMAIN books = {"b1"}

\* the text of every repository error
RepositoryErrorTexts == {ErrorText(e) : e \in RepositoryErrors}

\* goroutine t answers a create request whose body is valid, whose identifier
\* is stored, and which the service rejects with none of its own errors
CreatesStoredIdentifier(t) ==
    /\ Answers(t)
    /\ res'[t].err \notin {DecodeError, "service.ErrInvalidBook",
                           "service.ErrInvalidAuthor", "service.ErrInvalidReadingList",
                           "service.ErrDuplicateISBN"}
    /\ \/ at[t].op = "CreateBook" /\ loc[t].book.ID \in DOMAIN books
       \/ at[t].op = "CreateAuthor" /\ loc[t].author.ID \in DOMAIN authors
       \/ at[t].op = "CreateReadingList" /\ loc[t].list.ID \in DOMAIN lists

\* C16: a create request with a valid body whose identifier is already
\* stored, and which triggers no other service error, is answered 500 with
\* the endpoint's fixed message, which is no repository error text, and the
\* stored entities are unchanged
CreateStoredIs500 ==
    [][\A t \in Threads : CreatesStoredIdentifier(t) =>
          LET resp == Response(t)'
          IN  /\ resp.status = 500
              /\ resp.body.json = "object"
              /\ resp.body.value.error =
                    (CASE at[t].op = "CreateBook" -> "Failed to create book"
                       [] at[t].op = "CreateAuthor" -> "Failed to create author"
                       [] at[t].op = "CreateReadingList" ->
                             "Failed to create reading list")
              /\ resp.body.value.error \notin RepositoryErrorTexts
              /\ <<books, authors, lists>>' = <<books, authors, lists>>]_vars

CreateStoredIs500Witness ==
    \E t \in Threads :
        /\ res[t].op = "CreateAuthor"
        /\ res[t].err = "repository.ErrAuthorExists"
        /\ Response(t).status = 500
        /\ "a1" \in DOMAIN authors /\ "b1" \in DOMAIN books /\ "l1" \in DOMAIN lists

\* C17: every list endpoint (GET /api/books, /api/authors, with or without
\* ?country=, /api/lists) answers 200 with a JSON array, the empty array
\* and not null when nothing is stored or nothing matches
ListAnswersArray ==
    \A t \in Threads :
        res[t].op \in {"ListBooks", "ListAuthors", "GetAuthorsByCountry",
                       "ListReadingLists"} =>
            /\ Response(t).status = 200
            /\ Response(t).body.json = "array"

(***************************************************************************)
(* middleware: BasicAuth and RequireRole.  A string that the code takes    *)
(* apart (the decoded credentials, a username, a password) is a sequence   *)
(* of characters.  An Authorization header is its first six bytes (fewer   *)
(* when it is shorter) and what base64 decoding makes of the rest: an      *)
(* error or the decoded text.                                              *)
(***************************************************************************)
MaxText == 3        \* longest decoded credentials text

Chars == {"a", ":"}

Texts == UNION {[1..n -> Chars] : n \in 0..MaxText}

Header(first6, payload) == [first6 |-> first6, payload |-> payload]

NotBase64 == [valid |-> FALSE, text |-> <<>>]

Base64Of(text) == [valid |-> TRUE, text |-> text]

\* strings.EqualFold against "Basic ": equal after case folding
EqualFold(s, prefix) ==
    LET Folded(x) == CASE x \in {"Basic ", "BASIC ", "basic "} -> "basic "
                       [] OTHER -> x
    IN  Folded(s) = Folded(prefix)

\* strings.IndexByte: the first index of c in s, 0 (Go: -1) when absent
IndexByte(s, c) ==
    IF \E i \in DOMAIN s : s[i] = c
    THEN CHOOSE i \in DOMAIN s : s[i] = c /\ \A j \in 1..(i - 1) : s[j] # c
    ELSE 0

\* parseBasicAuth that splits at the last colon
parseBasicAuth_LastColon(auth) ==
    LET decodedStr == auth.payload.text
        colons == {i \in DOMAIN decodedStr : decodedStr[i] = ":"}
    IN  IF ~EqualFold(auth.first6, "Basic ") \/ ~auth.payload.valid \/ colons = {}
        THEN [username |-> <<>>, password |-> <<>>, ok |-> FALSE]
        ELSE LET colonIdx == CHOOSE i \in colons : \A j \in colons : j <= i
             IN  [username |-> SubSeq(decodedStr, 1, colonIdx - 1),
                  password |-> SubSeq(decodedStr, colonIdx + 1, Len(decodedStr)),
                  ok |-> TRUE]

parseBasicAuth(auth) ==
    LET failed == [username |-> <<>>, password |-> <<>>, ok |-> FALSE]
        decodedStr == auth.payload.text
        colonIdx == IndexByte(decodedStr, ":")
    IN  IF ~EqualFold(auth.first6, "Basic ") THEN failed
        ELSE IF ~auth.payload.valid THEN failed
        ELSE IF colonIdx = 0 THEN failed
        ELSE [username |-> SubSeq(decodedStr, 1, colonIdx - 1),
              password |-> SubSeq(decodedStr, colonIdx + 1, Len(decodedStr)),
              ok |-> TRUE]

NoUser == [Username |-> <<>>, Role |-> "", isNil |-> TRUE]

User(username, role) == [Username |-> username, Role |-> role, isNil |-> FALSE]

InMemoryUserStore_AddUser(s, username, password, role) ==
    Put(s, username, [Password |-> password, Role |-> role])

InMemoryUserStore_Authenticate(s, username, password) ==
    IF username \notin DOMAIN s THEN [user |-> NoUser, ok |-> FALSE]
    ELSE IF s[username].Password # password THEN [user |-> NoUser, ok |-> FALSE]
    ELSE [user |-> User(username, s[username].Role), ok |-> TRUE]

\* what a middleware does with a request: it answers itself (status and
\* WWW-Authenticate header), or it calls next.ServeHTTP with a request whose
\* context holds user
Answer(status, challenge) ==
    [next |-> FALSE, status |-> status, challenge |-> challenge, user |-> NoUser]

ServeNext(ctxUser) ==
    [next |-> TRUE, status |-> 0, challenge |-> [scheme |-> "", realm |-> ""],
     user |-> ctxUser]

\* requireAuth: the WWW-Authenticate header names the realm
requireAuth(realm) == Answer(401, [scheme |-> "Basic", realm |-> realm])

\* RequireRole that lets a request without a user through
RequireRole_NoUserCheck(roles, ctxUser) ==
    IF ~ctxUser.isNil /\ ctxUser.Role \notin roles
    THEN Answer(403, [scheme |-> "", realm |-> ""])
    ELSE ServeNext(ctxUser)

\* user := GetUser(r.Context()) is ctxUser, nil when the context has none
RequireRole(roles, ctxUser) ==
    IF ctxUser.isNil THEN Answer(401, [scheme |-> "", realm |-> ""])
    ELSE IF ctxUser.Role \notin roles THEN Answer(403, [scheme |-> "", realm |-> ""])
    ELSE ServeNext(ctxUser)

BasicAuth(store, realm, auth) ==
    LET p == parseBasicAuth(auth)
        a == InMemoryUserStore_Authenticate(store, p.username, p.password)
    IN  IF ~p.ok THEN requireAuth(realm)
        ELSE IF ~a.ok THEN requireAuth(realm)
        ELSE ServeNext(a.user)

\* the wrapped handler h: it answers 200, and reached records that it ran
\* and user what GetUser found in its context
Wrapped(ctxUser) ==
    [reached |-> TRUE, status |-> 200, challenge |-> [scheme |-> "", realm |-> ""],
     user |-> ctxUser]

\* the outcome of outer(inner): inner runs when outer calls next
Chain(outer, inner) == IF outer.next THEN inner ELSE outer

\* the outcome of a middleware wrapped around h
Handled(outer) ==
    IF outer.next THEN Wrapped(outer.user)
    ELSE [reached |-> FALSE, status |-> outer.status,
          challenge |-> outer.challenge, user |-> NoUser]

(***************************************************************************)
(* Specification of the auth middleware: users are added, and requests go  *)
(* through BasicAuth(h), BasicAuth(RequireRole(roles)(h)) or, with a       *)
(* context of the caller's making, RequireRole(roles)(h)                   *)
(***************************************************************************)
Realm == "bookshelf"

AuthHeaders ==
    {Header(first6, payload) :
        first6 \in {"", "Basic ", "basic ", "Bearer"},
        payload \in {NotBase64} \cup {Base64Of(text) : text \in Texts}}

RoleSets == {{"admin"}, {"admin", "user"}}

mwFrame == <<sut, heap, held, listPtrs, bookPtrs, counter, rid, issued,
             clock, books, authors, lists, mu, pc, at, loc, res>>

Auth_AddUser(username, password, role) ==
    /\ users' = InMemoryUserStore_AddUser(users, username, password, role)
    /\ UNCHANGED <<authOut, mwFrame>>

\* BasicAuth(store, realm)(h)
Auth_BasicAuth(auth) ==
    /\ authOut' = [chain |-> "BasicAuth", auth |-> auth, roles |-> {},
                   answer |-> Handled(BasicAuth(users, Realm, auth))]
    /\ UNCHANGED <<users, mwFrame>>

\* BasicAuth(store, realm)(RequireRole(roles...)(h))
Auth_BasicAuthRequireRole(auth, roles) ==
    /\ LET outer == BasicAuth(users, Realm, auth)
       IN  authOut' = [chain |-> "BasicAuth+RequireRole", auth |-> auth,
                       roles |-> roles,
                       answer |-> Handled(Chain(outer, RequireRole(roles, outer.user)))]
    /\ UNCHANGED <<users, mwFrame>>

\* RequireRole(roles...)(h) on a request whose context holds ctxUser
Auth_RequireRole(roles, ctxUser) ==
    /\ authOut' = [chain |-> "RequireRole", ctxUser |-> ctxUser, roles |-> roles,
                   answer |-> Handled(RequireRole(roles, ctxUser))]
    /\ UNCHANGED <<users, mwFrame>>

NextAuth ==
    \/ \E password \in {<<>>, <<"a">>, <<":">>}, role \in {"admin", "user"} :
          Auth_AddUser(<<"a">>, password, role)
    \/ \E auth \in AuthHeaders : Auth_BasicAuth(auth)
    \/ \E auth \in AuthHeaders, roles \in RoleSets :
          Auth_BasicAuthRequireRole(auth, roles)
    \/ \E roles \in RoleSets,
          ctxUser \in {NoUser, User(<<"a">>, "admin"), User(<<"a">>, "user")} :
          Auth_RequireRole(roles, ctxUser)

SpecAuth == InitSvc /\ [][NextAuth]_vars

\* the header is a well-formed Basic header whose credentials the store
\* accepts, as user u: Basic scheme, valid base64, a colon in the text,
\* the text before the first colon a stored username and the text after it
\* that user's password
Authenticates(auth, store, u) ==
    /\ auth.first6 \in {"Basic ", "basic ", "BASIC "}
    /\ auth.payload.valid
    /\ \E i \in DOMAIN auth.payload.text :
          /\ auth.payload.text[i] = ":"
          /\ \A j \in 1..(i - 1) : auth.payload.text[j] # ":"
          /\ u.Username = SubSeq(auth.payload.text, 1, i - 1)
          /\ u.Username \in DOMAIN store
          /\ store[u.Username].Password =
                SubSeq(auth.payload.text, i + 1, Len(auth.payload.text))
          /\ u.Role = store[u.Username].Role

\* C18: BasicAuth invokes the wrapped handler if and only if the header is a
\* well-formed Basic header and the store authenticates the decoded
\* username and password; the handler then finds that user, with the stored
\* role, in the request context; otherwise the answer is 401 with a
\* WWW-Authenticate header naming the realm and the handler is not invoked
BasicAuthGate ==
    [][(authOut' # authOut /\ authOut'.chain = "BasicAuth") =>
          LET a == authOut'.answer
              auth == authOut'.auth
              accepted == \E name \in DOMAIN users, role \in {"admin", "user"} :
                             Authenticates(auth, users, User(name, role))
          IN  /\ a.reached <=> accepted
              /\ a.reached => /\ ~a.user.isNil
                              /\ Authenticates(auth, users, a.user)
              /\ ~a.reached => /\ a.status = 401
                               /\ a.challenge = [scheme |-> "Basic", realm |-> Realm]]_vars

BasicAuthGateWitness ==
    /\ authOut.chain = "BasicAuth"
    /\ authOut.auth = Header("basic ", Base64Of(<<"a", ":", ":">>))
    /\ authOut.answer.reached
    /\ authOut.answer.user = User(<<"a">>, "user")

\* C19: RequireRole answers 401 when the context holds no user, 403 when
\* the user's role is not among the roles, and otherwise invokes the
\* wrapped handler; under BasicAuth(RequireRole(roles)(h)) the handler is
\* reached if and only if the credentials authenticate and the user's role
\* is among the roles
RequireRoleGate ==
    [][/\ (authOut' # authOut /\ authOut'.chain = "RequireRole") =>
            LET a == authOut'.answer
                u == authOut'.ctxUser
            IN  /\ u.isNil => a.status = 401 /\ ~a.reached
                /\ (~u.isNil /\ u.Role \notin authOut'.roles) =>
                      a.status = 403 /\ ~a.reached
                /\ (~u.isNil /\ u.Role \in authOut'.roles) =>
                      a.reached /\ a.user = u
       /\ (authOut' # authOut /\ authOut'.chain = "BasicAuth+RequireRole") =>
            LET a == authOut'.answer
            IN  a.reached <=>
                  \E name \in DOMAIN users, role \in authOut'.roles :
                     Authenticates(authOut'.auth, users, User(name, role))]_vars

RequireRoleGateWitness ==
    /\ authOut.chain = "BasicAuth+RequireRole"
    /\ authOut.roles = {"admin"}
    /\ authOut.answer.status = 403
    /\ authOut.auth.payload.text = <<"a", ":", "a">>

\* ---------------------------------------------------------------------
\* RequestID middleware (logging.go): one instance, one captured counter,
\* requests served by concurrent goroutines.  `counter++` followed by
\* `reqID := counter` is three unsynchronised memory operations (load,
\* store, load), so each is a step of its own and the goroutines may
\* interleave between them.  The counter is a uint64; the bound on the
\* number of requests keeps it far from 2^64, so no wrap is modelled.

MaxRequests == 4    \* requests served by the one middleware instance

RECURSIVE uitoaDigits(_)
uitoaDigits(val) ==
    IF val > 0
    THEN Append(uitoaDigits(val \div 10),
                <<"0", "1", "2", "3", "4", "5", "6", "7", "8", "9">>[(val % 10) + 1])
    ELSE <<>>

uitoa(val) == IF val = 0 THEN <<"0">> ELSE uitoaDigits(val)

formatRequestID(id) == <<"req-">> \o uitoa(id)

ridFrame == <<sut, heap, held, listPtrs, bookPtrs, users, authOut,
              clock, books, authors, lists, mu, pc, at, loc, res>>

Started == Len(issued) + Cardinality({t \in Threads : rid[t].pc # "idle"})

\* counter++ : the load half
RequestID_Load(t) ==
    /\ rid[t].pc = "idle"
    /\ Started < MaxRequests
    /\ rid' = [rid EXCEPT ![t] = [pc |-> "loaded", tmp |-> counter]]
    /\ UNCHANGED <<counter, issued, ridFrame>>

\* counter++ : the store half
RequestID_Store(t) ==
    /\ rid[t].pc = "loaded"
    /\ counter' = rid[t].tmp + 1
    /\ rid' = [rid EXCEPT ![t] = [pc |-> "stored", tmp |-> 0]]
    /\ UNCHANGED <<issued, ridFrame>>

\* reqID := counter; w.Header().Set("X-Request-ID", formatRequestID(reqID));
\* next.ServeHTTP(w, r)
RequestID_Take(t) ==
    /\ rid[t].pc = "stored"
    /\ issued' = Append(issued, [reqID |-> counter,
                                 header |-> formatRequestID(counter)])
    /\ rid' = [rid EXCEPT ![t] = RidIdle]
    /\ UNCHANGED <<counter, ridFrame>>

NextRequestID ==
    \/ \E t \in Threads : RequestID_Load(t)
    \/ \E t \in Threads : RequestID_Store(t)
    \/ \E t \in Threads : RequestID_Take(t)

SpecRequestID == InitSvc /\ [][NextRequestID]_vars

\* C20: for one RequestID instance and any interleaving of concurrently
\* handled requests, no two requests receive the same X-Request-ID value,
\* and the values increase strictly in the order in which the requests
\* take their identifier.
RequestIDsUniqueIncreasing ==
    \A i, j \in DOMAIN issued :
        i < j => /\ issued[i].header # issued[j].header
                 /\ issued[i].reqID < issued[j].reqID

(***************************************************************************)
(* The read methods of the repositories called directly by concurrent      *)
(* goroutines, on stores that earlier Create calls filled                  *)
(***************************************************************************)
\* Count returns an int
CountOf(n) == [count |-> n]

BookRepo_List(t) ==
    \/ Call(t, "BookRepository.List", "book", "List", Loc0)
    \/ /\ InCrit(t, "BookRepository.List", "book", "List")
       /\ Return(t, "nil", BookRepository_List(books))
       /\ UNCHANGED <<books, authors, lists>>

BookRepo_FindByAuthor(t, authorID) ==
    \/ Call(t, "BookRepository.FindByAuthor", "book", "FindByAuthor",
            [Loc0 EXCEPT !.id = authorID])
    \/ /\ InCrit(t, "BookRepository.FindByAuthor", "book", "FindByAuthor")
       /\ loc[t].id = authorID
       /\ Return(t, "nil", BookRepository_FindByAuthor(books, authorID))
       /\ UNCHANGED <<books, authors, lists>>

BookRepo_Count(t) ==
    \/ Call(t, "BookRepository.Count", "book", "Count", Loc0)
    \/ /\ InCrit(t, "BookRepository.Count", "book", "Count")
       /\ Return(t, "nil", CountOf(BookRepository_Count(books)))
       /\ UNCHANGED <<books, authors, lists>>

AuthorRepo_List(t) ==
    \/ Call(t, "AuthorRepository.List", "author", "List", Loc0)
    \/ /\ InCrit(t, "AuthorRepository.List", "author", "List")
       /\ Return(t, "nil", AuthorRepository_List(authors))
       /\ UNCHANGED <<books, authors, lists>>

AuthorRepo_FindByCountry(t, country) ==
    \/ Call(t, "AuthorRepository.FindByCountry", "author", "FindByCountry",
            [Loc0 EXCEPT !.country = country])
    \/ /\ InCrit(t, "AuthorRepository.FindByCountry", "author", "FindByCountry")
       /\ loc[t].country = country
       /\ Return(t, "nil", AuthorRepository_FindByCountry(authors, country))
       /\ UNCHANGED <<books, authors, lists>>

AuthorRepo_Count(t) ==
    \/ Call(t, "AuthorRepository.Count", "author", "Count", Loc0)
    \/ /\ InCrit(t, "AuthorRepository.Count", "author", "Count")
       /\ Return(t, "nil", CountOf(AuthorRepository_Count(authors)))
       /\ UNCHANGED <<books, authors, lists>>

ListRepo_List(t) ==
    \/ Call(t, "ReadingListRepository.List", "list", "List", Loc0)
    \/ /\ InCrit(t, "ReadingListRepository.List", "list", "List")
       /\ Return(t, "nil", ReadingListRepository_List(lists))
       /\ UNCHANGED <<books, authors, lists>>

ListRepo_FindByBook(t, bookID) ==
    \/ Call(t, "ReadingListRepository.FindByBook", "list", "FindByBook",
            [Loc0 EXCEPT !.bid = bookID])
    \/ /\ InCrit(t, "ReadingListRepository.FindByBook", "list", "FindByBook")
       /\ loc[t].bid = bookID
       /\ Return(t, "nil", ReadingListRepository_FindByBook(lists, bookID))
       /\ UNCHANGED <<books, authors, lists>>

ListRepo_Count(t) ==
    \/ Call(t, "ReadingListRepository.Count", "list", "Count", Loc0)
    \/ /\ InCrit(t, "ReadingListRepository.Count", "list", "Count")
       /\ Return(t, "nil", CountOf(ReadingListRepository_Count(lists)))
       /\ UNCHANGED <<books, authors, lists>>

\* the maps as Create calls at time 1 leave them: any of the identifiers,
\* books by either author, authors of either country, lists of no, one or
\* two books
FilledBooks ==
    UNION {{[id \in S |-> Book(id, 1, IF id = "b1" THEN "x" ELSE "y", f[id], 0, 1, 1)] :
               f \in [S -> AuthorIDs]} : S \in SUBSET BookIDs}

FilledAuthors ==
    UNION {{[id \in S |-> Author(id, 1, 0, f[id], 1, 1)] :
               f \in [S -> Countries]} : S \in SUBSET AuthorIDs}

FilledLists ==
    UNION {{[id \in S |-> ReadingList(id, 1, 0, Slice(f[id]), 1, 1)] :
               f \in [S -> {<<>>, <<"b1">>, <<"b1", "b2">>}]} : S \in SUBSET ListIDs}

InitReads ==
    /\ clock = 1
    /\ sut \in {{r} : r \in Repos}
    /\ books \in (IF sut = {"book"} THEN FilledBooks ELSE {EmptyMap})
    /\ authors \in (IF sut = {"author"} THEN FilledAuthors ELSE {EmptyMap})
    /\ lists \in (IF sut = {"list"} THEN FilledLists ELSE {EmptyMap})
    /\ mu = [r \in Repos |-> [writer |-> "none", readers |-> {}]]
    /\ pc = [t \in Threads |-> "idle"]
    /\ at = [t \in Threads |-> Idle]
    /\ loc = [t \in Threads |-> Loc0]
    /\ res = [t \in Threads |-> Res0]
    /\ heap = <<>>
    /\ held = {}
    /\ listPtrs = EmptyMap
    /\ bookPtrs = EmptyMap
    /\ users = EmptyMap
    /\ authOut = NoRequest
    /\ counter = 0
    /\ rid = [t \in Threads |-> RidIdle]
    /\ issued = <<>>

NextReads ==
    \E t \in Threads :
        \/ RLock(t)
        \/ \E id \in BookIDs : BookRepo_Get(t, id)
        \/ BookRepo_List(t)
        \/ \E a \in AuthorIDs : BookRepo_FindByAuthor(t, a)
        \/ BookRepo_Count(t)
        \/ \E id \in AuthorIDs : AuthorRepo_Get(t, id)
        \/ AuthorRepo_List(t)
        \/ \E c \in Countries : AuthorRepo_FindByCountry(t, c)
        \/ AuthorRepo_Count(t)
        \/ \E id \in ListIDs : ListRepo_Get(t, id)
        \/ ListRepo_List(t)
        \/ \E b \in BookIDs : ListRepo_FindByBook(t, b)
        \/ ListRepo_Count(t)

SpecReads == InitReads /\ [][NextReads]_vars

\* what a read of map m answers: call names a method, k its argument,
\* matches(e) tells whether the Find method selects entity e
ReadAnswer(m, call, k, matches(_)) ==
    CASE call = "Get" -> IF k \in DOMAIN m THEN m[k] ELSE [ID |-> ""]
      [] call = "List" -> {m[i] : i \in DOMAIN m}
      [] call = "Count" -> Cardinality(DOMAIN m)
      [] OTHER -> {m[i] : i \in {j \in DOMAIN m : matches(m[j])}}

\* C21: while only read operations (Get, List, Find-by-field, Count) run,
\* in any number of concurrent threads, the stored state of every repository
\* is unchanged and each read returns exactly the stored entities as they
\* were before the reads started
ReadsLeaveStore ==
    [][/\ <<books, authors, lists>>' = <<books, authors, lists>>
       /\ \A t \in Threads : Returns(t) =>
            LET call == at[t].call
                r == res'[t]
                m == CASE at[t].repo = "book" -> books
                       [] at[t].repo = "author" -> authors
                       [] OTHER -> lists
                k == IF call = "FindByCountry" THEN loc[t].country
                     ELSE IF call = "FindByBook" THEN loc[t].bid ELSE loc[t].id
                matches(e) ==
                    CASE call = "FindByAuthor" -> e.AuthorID = k
                      [] call = "FindByCountry" -> e.Country = k
                      [] call = "FindByBook" -> \E i \in DOMAIN e.BookIDs.elems :
                                                    e.BookIDs.elems[i] = k
                      [] OTHER -> FALSE
                want == ReadAnswer(m, call, k, matches)
            IN  CASE call = "Get" ->
                       /\ r.err = "nil" <=> k \in DOMAIN m
                       /\ r.err = "nil" => r.val = want
                  [] call = "Count" -> r.val.count = want
                  [] OTHER -> r.val.elems = want]_vars

\* two goroutines inside List of a store of two books at the same time
\* a goroutine has listed a store of two books while the other one is
\* inside a read of the same repository
ReadsLeaveStoreWitness ==
    /\ res["t1"].op = "BookRepository.List"
    /\ Cardinality(res["t1"].val.elems) = 2
    /\ InCrit("t2", "BookRepository.FindByAuthor", "book", "FindByAuthor")

(***************************************************************************)
(* service: GetAuthor and GetReadingList                                   *)
(***************************************************************************)
GetAuthor(t, id) ==
    \/ /\ sut = Repos
       /\ Call(t, "GetAuthor", "author", "Get", [Loc0 EXCEPT !.id = id])
    \/ /\ InCrit(t, "GetAuthor", "author", "Get")
       /\ loc[t].id = id
       /\ LET r == AuthorRepository_Get(authors, id)
          IN  IF r.err = "repository.ErrAuthorNotFound"
              THEN Return(t, "service.ErrAuthorNotFound", NoVal)
              ELSE Return(t, r.err, r.ent)
       /\ UNCHANGED <<books, authors, lists>>

GetReadingList(t, id) ==
    \/ /\ sut = Repos
       /\ Call(t, "GetReadingList", "list", "Get", [Loc0 EXCEPT !.id = id])
    \/ /\ InCrit(t, "GetReadingList", "list", "Get")
       /\ loc[t].id = id
       /\ LET r == ReadingListRepository_Get(lists, id)
          IN  IF r.err = "repository.ErrReadingListNotFound"
              THEN Return(t, "service.ErrReadingListNotFound", NoVal)
              ELSE Return(t, r.err, r.ent)
       /\ UNCHANGED <<books, authors, lists>>

(***************************************************************************)
(* The round trip of the integration tests: a caller builds an entity      *)
(* whose identifier is not stored, passes it to its service's Create and,  *)
(* when Create returned nil, asks the service for that identifier; a       *)
(* failed Create ends the test (t.Fatalf).  loc[t] keeps the entity as the *)
(* caller built it.  Each test wires one service to fresh repositories, so *)
(* a run works on one kind of entity.                                      *)
(***************************************************************************)
OnlyBooks == authors = EmptyMap /\ lists = EmptyMap

OnlyAuthors == books = EmptyMap /\ lists = EmptyMap

OnlyLists == books = EmptyMap /\ authors = EmptyMap

CreateAndGetBook(t, book) ==
    \/ /\ Book_Validate(book) # "nil"
       /\ sut = Repos /\ OnlyBooks /\ book.ID \notin DOMAIN books
       /\ ReturnEarly(t, "CreateAndGetBook", "service.ErrInvalidBook")
    \/ /\ Book_Validate(book) = "nil"
       /\ sut = Repos /\ OnlyBooks /\ book.ID \notin DOMAIN books
       /\ Call(t, "CreateAndGetBook", "book", "List", [Loc0 EXCEPT !.book = book])
    \/ /\ InCrit(t, "CreateAndGetBook", "book", "List")
       /\ loc[t].book = book
       /\ LET existingBooks == BookRepository_List(books).elems
          IN  IF CreateBook_DuplicateISBN(existingBooks, book)
              THEN Return(t, "service.ErrDuplicateISBN", NoVal)
              ELSE Continue(t, "book", "Create", loc[t])
       /\ UNCHANGED <<books, authors, lists>>
    \/ /\ InCrit(t, "CreateAndGetBook", "book", "Create")
       /\ loc[t].book = book
       /\ LET r == BookRepository_Create(books, book, clock)
          IN  /\ books' = r.store
              /\ IF r.err # "nil"
                 THEN Return(t, r.err, NoVal)
                 ELSE Continue(t, "book", "Get", loc[t])
       /\ UNCHANGED <<authors, lists>>
    \/ /\ InCrit(t, "CreateAndGetBook", "book", "Get")
       /\ loc[t].book = book
       /\ LET r == BookRepository_Get(books, book.ID)
          IN  IF r.err = "repository.ErrBookNotFound"
              THEN Return(t, "service.ErrBookNotFound", NoVal)
              ELSE Return(t, r.err, r.ent)
       /\ UNCHANGED <<books, authors, lists>>

CreateAndGetAuthor(t, author) ==
    \/ /\ Author_Validate(author) # "nil"
       /\ sut = Repos /\ OnlyAuthors /\ author.ID \notin DOMAIN authors
       /\ ReturnEarly(t, "CreateAndGetAuthor", "service.ErrInvalidAuthor")
    \/ /\ Author_Validate(author) = "nil"
       /\ sut = Repos /\ OnlyAuthors /\ author.ID \notin DOMAIN authors
       /\ Call(t, "CreateAndGetAuthor", "author", "Create",
               [Loc0 EXCEPT !.author = author])
    \/ /\ InCrit(t, "CreateAndGetAuthor", "author", "Create")
       /\ loc[t].author = author
       /\ LET r == AuthorRepository_Create(authors, author, clock)
          IN  /\ authors' = r.store
              /\ IF r.err # "nil"
                 THEN Return(t, r.err, NoVal)
                 ELSE Continue(t, "author", "Get", loc[t])
       /\ UNCHANGED <<books, lists>>
    \/ /\ InCrit(t, "CreateAndGetAuthor", "author", "Get")
       /\ loc[t].author = author
       /\ LET r == AuthorRepository_Get(authors, author.ID)
          IN  IF r.err = "repository.ErrAuthorNotFound"
              THEN Return(t, "service.ErrAuthorNotFound", NoVal)
              ELSE Return(t, r.err, r.ent)
       /\ UNCHANGED <<books, authors, lists>>

CreateAndGetReadingList(t, list) ==
    \/ /\ ReadingList_Validate(list) # "nil"
       /\ sut = Repos /\ OnlyLists /\ list.ID \notin DOMAIN lists
       /\ ReturnEarly(t, "CreateAndGetReadingList", "service.ErrInvalidReadingList")
    \/ /\ ReadingList_Validate(list) = "nil"
       /\ sut = Repos /\ OnlyLists /\ list.ID \notin DOMAIN lists
       /\ Call(t, "CreateAndGetReadingList", "list", "Create",
               [Loc0 EXCEPT !.list = list])
    \/ /\ InCrit(t, "CreateAndGetReadingList", "list", "Create")
       /\ loc[t].list = list
       /\ LET r == ReadingListRepository_Create(lists, list, clock)
          IN  /\ lists' = r.store
              /\ IF r.err # "nil"
                 THEN Return(t, r.err, NoVal)
                 ELSE Continue(t, "list", "Get", loc[t])
       /\ UNCHANGED <<books, authors>>
    \/ /\ InCrit(t, "CreateAndGetReadingList", "list", "Get")
       /\ loc[t].list = list
       /\ LET r == ReadingListRepository_Get(lists, list.ID)
          IN  IF r.err = "repository.ErrReadingListNotFound"
              THEN Return(t, "service.ErrReadingListNotFound", NoVal)
              ELSE Return(t, r.err, r.ent)
       /\ UNCHANGED <<books, authors, lists>>

\* what the callers build: either identifier, timestamps of the caller's
\* choosing, and one entity per kind that fails Validate
RoundBooks ==
    {Book(id, 1, isbn, "a1", pages, c, u) :
        id \in BookIDs, isbn \in ISBNs \ {""}, pages \in {0, 3},
        c \in CallerTimes, u \in CallerTimes}
    \cup {Book("b1", 0, "x", "a1", 0, ZeroTime, ZeroTime)}

RoundAuthors ==
    {Author(id, 1, bio, country, c, u) :
        id \in AuthorIDs, bio \in {0, 5}, country \in Countries,
        c \in CallerTimes, u \in CallerTimes}
    \cup {Author("a1", 0, 0, "PL", ZeroTime, ZeroTime)}

RoundLists ==
    {ReadingList(id, 1, desc, ids, c, u) :
        id \in ListIDs, desc \in {0, 5},
        ids \in {NilSlice, Slice(<<>>), Slice(<<"b1">>), Slice(<<"b2", "b1">>)},
        c \in CallerTimes, u \in CallerTimes}
    \cup {ReadingList("l1", 0, 0, NilSlice, ZeroTime, ZeroTime)}

NextRound ==
    \/ Tick
    \/ \E t \in {SeqThread} :
        \/ RLock(t)
        \/ Lock(t)
        \/ \E book \in RoundBooks : CreateAndGetBook(t, book)
        \/ \E author \in RoundAuthors : CreateAndGetAuthor(t, author)
        \/ \E list \in RoundLists : CreateAndGetReadingList(t, list)

SpecRound == InitSvc /\ [][NextRound]_vars

\* goroutine t's round trip ends in this step; RoundTripEnds(t) holds also
\* for the round trip that ends before its first repository call
RoundTrips == {"CreateAndGetBook", "CreateAndGetAuthor", "CreateAndGetReadingList"}

RoundTripEnds(t) == res'[t] # res[t] /\ res'[t].op \in RoundTrips

\* the entity goroutine t's round trip was called with
RoundTripInput(t) ==
    CASE at[t].op = "CreateAndGetBook" -> loc[t].book
      [] at[t].op = "CreateAndGetAuthor" -> loc[t].author
      [] OTHER -> loc[t].list

RoundTripValid(t) ==
    CASE at[t].op = "CreateAndGetBook" -> Book_Validate(loc[t].book) = "nil"
      [] at[t].op = "CreateAndGetAuthor" -> Author_Validate(loc[t].author) = "nil"
      [] OTHER -> ReadingList_Validate(loc[t].list) = "nil"

\* got carries the fields of the entity put in and server-set timestamps
ReadsBack(put, got, now) ==
    /\ \A f \in (DOMAIN put) \ {"CreatedAt", "UpdatedAt", "BookIDs"} : got[f] = put[f]
    /\ DOMAIN got = DOMAIN put
    /\ "BookIDs" \in DOMAIN put =>
          /\ got.BookIDs.elems = put.BookIDs.elems
          /\ ~got.BookIDs.isNil
    /\ got.CreatedAt \in 1..now
    /\ got.UpdatedAt = got.CreatedAt

\* C22 as stated: for every valid entity with a fresh identifier, creating
\* it through its service and then getting it by id returns an entity whose
\* caller-settable fields equal the input fields, with BookIDs equal as a
\* sequence (an omitted BookIDs reads back as the empty sequence), and whose
\* created_at and updated_at are the server-set non-zero values regardless
\* of any timestamps the caller supplied
RoundTripAlways ==
    [][\A t \in Threads :
          (RoundTripEnds(t) /\ pc[t] = "crit" /\ RoundTripValid(t)) =>
              /\ res'[t].err = "nil"
              /\ ReadsBack(RoundTripInput(t), res'[t].val, clock)]_vars

\* C22 amended: the same, for every valid entity with a fresh identifier
\* that Create accepts, which for a book requires an ISBN that no stored
\* book carries
RoundTripWhenCreated ==
    [][\A t \in Threads :
          (RoundTripEnds(t) /\ pc[t] = "crit" /\ RoundTripValid(t)
             /\ ~(at[t].op = "CreateAndGetBook"
                    /\ \E i \in DOMAIN books :
                          i # loc[t].book.ID /\ books[i].ISBN = loc[t].book.ISBN)) =>
              /\ res'[t].err = "nil"
              /\ ReadsBack(RoundTripInput(t), res'[t].val, clock)]_vars

\* a list built without book_ids and with timestamps of the caller's has
\* been created and is about to be read back, the caller's timestamp being
\* ahead of the clock
RoundTripWhenCreatedWitness ==
    /\ InCrit(SeqThread, "CreateAndGetReadingList", "list", "Get")
    /\ loc[SeqThread].list.BookIDs.isNil
    /\ loc[SeqThread].list.CreatedAt = MaxClock
    /\ clock < MaxClock
    /\ loc[SeqThread].list.ID \in DOMAIN lists

(***************************************************************************)
(* service: AuthorService.UpdateAuthor, and the three services creating    *)
(* and updating, one request at a time, with bodies that pass and bodies   *)
(* that fail Validate                                                      *)
(***************************************************************************)
UpdateAuthor(t, author) ==
    \/ /\ Author_Validate(author) # "nil"
       /\ sut = Repos
       /\ ReturnEarly(t, "UpdateAuthor", "service.ErrInvalidAuthor")
    \/ /\ Author_Validate(author) = "nil"
       /\ sut = Repos
       /\ Call(t, "UpdateAuthor", "author", "Update", [Loc0 EXCEPT !.author = author])
    \/ /\ InCrit(t, "UpdateAuthor", "author", "Update")
       /\ loc[t].author = author
       /\ LET r == AuthorRepository_Update(authors, author, clock)
          IN  /\ authors' = r.store
              /\ IF r.err = "repository.ErrAuthorNotFound"
                 THEN Return(t, "service.ErrAuthorNotFound", NoVal)
                 ELSE Return(t, r.err, r.ent)
       /\ UNCHANGED <<books, lists>>

\* request bodies: for every identifier the ones that pass Validate and one
\* per rule of Validate that breaks that rule only
BodyBooks ==
    UNION {{Book(id, 1, "x", "a1", 0, ZeroTime, ZeroTime),
            Book(id, 1, "y", "a1", 0, ZeroTime, ZeroTime),
            Book(id, 0, "x", "a1", 0, ZeroTime, ZeroTime),
            Book(id, 201, "x", "a1", 0, ZeroTime, ZeroTime),
            Book(id, 1, "", "a1", 0, ZeroTime, ZeroTime),
            Book(id, 1, "x", "", 0, ZeroTime, ZeroTime),
            Book(id, 1, "x", "a1", -1, ZeroTime, ZeroTime)} : id \in BookIDs}

BodyAuthors ==
    UNION {{Author(id, 1, 0, "PL", ZeroTime, ZeroTime),
            Author(id, 0, 0, "PL", ZeroTime, ZeroTime),
            Author(id, 101, 0, "PL", ZeroTime, ZeroTime),
            Author(id, 1, 2001, "PL", ZeroTime, ZeroTime)} : id \in AuthorIDs}

BodyLists ==
    UNION {{ReadingList(id, 1, 0, NilSlice, ZeroTime, ZeroTime),
            ReadingList(id, 1, 0, Slice(<<"b1">>), ZeroTime, ZeroTime),
            ReadingList(id, 0, 0, NilSlice, ZeroTime, ZeroTime),
            ReadingList(id, 101, 0, NilSlice, ZeroTime, ZeroTime),
            ReadingList(id, 1, 501, NilSlice, ZeroTime, ZeroTime)} : id \in ListIDs}

NextBodies ==
    \E t \in {SeqThread} :
        \/ RLock(t)
        \/ Lock(t)
        \/ \E book \in BodyBooks : CreateBook(t, book)
        \/ \E book \in BodyBooks : UpdateBook(t, book)
        \/ \E author \in BodyAuthors : CreateAuthor(t, author)
        \/ \E author \in BodyAuthors : UpdateAuthor(t, author)
        \/ \E list \in BodyLists : CreateReadingList(t, list)
        \/ \E list \in BodyLists : UpdateReadingList(t, list)

SpecBodies == InitSvc /\ [][NextBodies]_vars

\* the rules of the data model, as the spec lists them
BookRules(b) ==
    b.Title \in 1..200 /\ b.ISBN # "" /\ b.AuthorID # "" /\ b.Pages >= 0

AuthorRules(a) == a.Name \in 1..100 /\ a.Bio <= 2000

ReadingListRules(r) == r.Name \in 1..100 /\ r.Description <= 500

\* goroutine t is answered kind in this step, which writes no store
Refused(t, kind) ==
    /\ res'[t].err = kind
    /\ <<books, authors, lists>>' = <<books, authors, lists>>

\* C23: in every state reachable through service Create*/Update* calls,
\* every stored Book, Author and ReadingList satisfies its Validate rules;
\* a Create* or Update* call with an entity that fails Validate returns the
\* Invalid* kind and leaves the store unchanged, whether or not the
\* identifier is stored
StoredEntitiesValid ==
    [][/\ \A id \in DOMAIN books' : BookRules(books'[id])
       /\ \A id \in DOMAIN authors' : AuthorRules(authors'[id])
       /\ \A id \in DOMAIN lists' : ReadingListRules(lists'[id])
       /\ \A t \in Threads :
            /\ \A book \in {b \in BodyBooks : ~BookRules(b)} :
                  (CreateBook(t, book) \/ UpdateBook(t, book)) =>
                      Refused(t, "service.ErrInvalidBook")
            /\ \A author \in {a \in BodyAuthors : ~AuthorRules(a)} :
                  (CreateAuthor(t, author) \/ UpdateAuthor(t, author)) =>
                      Refused(t, "service.ErrInvalidAuthor")
            /\ \A list \in {r \in BodyLists : ~ReadingListRules(r)} :
                  (CreateReadingList(t, list) \/ UpdateReadingList(t, list)) =>
                      Refused(t, "service.ErrInvalidReadingList")]_vars

\* an update has been refused as invalid while books, authors and lists are
\* stored
StoredEntitiesValidWitness ==
    /\ res[SeqThread].op = "UpdateBook"
    /\ res[SeqThread].err = "service.ErrInvalidBook"
    /\ Cardinality(DOMAIN books) = 2
    /\ authors # EmptyMap
    /\ lists # EmptyMap

(***************************************************************************)
(* service: the find-by-field operations, over stores that Create calls    *)
(* fill one request at a time                                              *)
(***************************************************************************)
GetBooksByAuthor(t, authorID) ==
    \/ /\ sut = Repos
       /\ Call(t, "GetBooksByAuthor", "book", "FindByAuthor",
               [Loc0 EXCEPT !.id = authorID])
    \/ /\ InCrit(t, "GetBooksByAuthor", "book", "FindByAuthor")
       /\ loc[t].id = authorID
       /\ Return(t, "nil", BookRepository_FindByAuthor(books, authorID))
       /\ UNCHANGED <<books, authors, lists>>

GetListsContainingBook(t, bookID) ==
    \/ /\ sut = Repos
       /\ Call(t, "GetListsContainingBook", "list", "FindByBook",
               [Loc0 EXCEPT !.bid = bookID])
    \/ /\ InCrit(t, "GetListsContainingBook", "list", "FindByBook")
       /\ loc[t].bid = bookID
       /\ Return(t, "nil", ReadingListRepository_FindByBook(lists, bookID))
       /\ UNCHANGED <<books, authors, lists>>

\* request bodies: books by either author, authors of either country, lists
\* of no, one or two books or one book twice, and one invalid body each
FindBooks ==
    {Book(id, 1, IF id = "b1" THEN "x" ELSE "y", a, 0, ZeroTime, ZeroTime) :
        id \in BookIDs, a \in AuthorIDs}
    \cup {Book("b1", 0, "x", "a1", 0, ZeroTime, ZeroTime)}

FindAuthors ==
    {Author(id, 1, 0, c, ZeroTime, ZeroTime) : id \in AuthorIDs, c \in Countries}
    \cup {Author("a1", 0, 0, "PL", ZeroTime, ZeroTime)}

FindLists ==
    {ReadingList(id, 1, 0, ids, ZeroTime, ZeroTime) :
        id \in ListIDs,
        ids \in {NilSlice, Slice(<<"b1">>), Slice(<<"b1", "b2">>), Slice(<<"b2", "b2">>)}}
    \cup {ReadingList("l1", 0, 0, NilSlice, ZeroTime, ZeroTime)}

NextFind ==
    \E t \in {SeqThread} :
        \/ RLock(t)
        \/ Lock(t)
        \/ \E book \in FindBooks : CreateBook(t, book)
        \/ \E author \in FindAuthors : CreateAuthor(t, author)
        \/ \E list \in FindLists : CreateReadingList(t, list)
        \/ \E a \in AuthorIDs : GetBooksByAuthor(t, a)
        \/ \E c \in Countries : GetAuthorsByCountry(t, c)
        \/ \E b \in BookIDs : GetListsContainingBook(t, b)

SpecFind == InitSvc /\ [][NextFind]_vars

\* the result holds the entities of m under the identifiers ids, one each
HoldsExactly(result, m, ids) ==
    /\ result.elems = {m[i] : i \in ids}
    /\ Cardinality(result.elems) = Cardinality(ids)

\* C24: each find-by-field operation returns exactly the stored entities
\* that match, each once, and the empty result when none match:
\* GetAuthorsByCountry(c) the authors whose country is c, GetBooksByAuthor(a)
\* the books whose author id is a, GetListsContainingBook(b) the lists whose
\* BookIDs contain b
FindReturnsMatches ==
    [][\A t \in Threads : Returns(t) =>
          LET r == res'[t].val
          IN  CASE at[t].op = "GetAuthorsByCountry" ->
                     HoldsExactly(r, authors,
                         {i \in DOMAIN authors : authors[i].Country = loc[t].country})
                [] at[t].op = "GetBooksByAuthor" ->
                     HoldsExactly(r, books,
                         {i \in DOMAIN books : books[i].AuthorID = loc[t].id})
                [] at[t].op = "GetListsContainingBook" ->
                     HoldsExactly(r, lists,
                         {i \in DOMAIN lists :
                             loc[t].bid \in Range(lists[i].BookIDs.elems)})
                [] OTHER -> TRUE]_vars

\* the lists containing b2 have been asked for and one of the two stored
\* lists, in which b2 comes second, is the answer
FindReturnsMatchesWitness ==
    /\ res[SeqThread].op = "GetListsContainingBook"
    /\ Cardinality(DOMAIN lists) = 2
    /\ Cardinality(res[SeqThread].val.elems) = 1
    /\ \E l \in res[SeqThread].val.elems : l.BookIDs.elems = <<"b1", "b2">>

(***************************************************************************)
(* model: Validate and the membership mutators called directly, as the     *)
(* model tests do.  A string is given by its number of characters and its  *)
(* number of bytes (UTF-8: one to four bytes per character); len(s), which *)
(* Validate compares with the maxima, is the number of bytes.  res[t]      *)
(* keeps the call: the strings put in, the receiver and what it returned.  *)
(***************************************************************************)
Text(chars, bytes) == [chars |-> chars, bytes |-> bytes]

\* len(s)
ByteLen(s) == s.bytes

\* strings around a maximum: all ASCII, with one two-byte character, or all
\* four-byte characters
TextsAround(max) ==
    {Text(n, b) : <<n, b>> \in
        {nb \in {0, 1, max - 1, max, max + 1} \X (0..(4 * (max + 1))) :
            nb[2] \in {nb[1], nb[1] + (IF nb[1] = 0 THEN 0 ELSE 1), 4 * nb[1]}}}

\* what a method of the model, which takes no lock, leaves for goroutine t
Applied(t, op, err, val) ==
    /\ res' = [res EXCEPT ![t] = [op |-> op, err |-> err, val |-> val]]
    /\ UNCHANGED <<clock, books, authors, lists, mu, pc, at, loc, env>>

Caller_BookValidate(t, title, isbn, authorID, pages) ==
    /\ pc[t] = "idle"
    /\ LET b == Book("b1", ByteLen(title), isbn, authorID, pages, ZeroTime, ZeroTime)
       IN  Applied(t, "Book.Validate", Book_Validate(b), [recv |-> b, title |-> title])

Caller_AuthorValidate(t, name, bio) ==
    /\ pc[t] = "idle"
    /\ LET a == Author("a1", ByteLen(name), ByteLen(bio), "PL", ZeroTime, ZeroTime)
       IN  Applied(t, "Author.Validate", Author_Validate(a),
                   [recv |-> a, name |-> name, bio |-> bio])

Caller_ReadingListValidate(t, name, desc) ==
    /\ pc[t] = "idle"
    /\ LET r == ReadingList("l1", ByteLen(name), ByteLen(desc), NilSlice,
                            ZeroTime, ZeroTime)
       IN  Applied(t, "ReadingList.Validate", ReadingList_Validate(r),
                   [recv |-> r, name |-> name, desc |-> desc])

\* list.AddBook(bookID) on a list whose BookIDs is nil or any sequence of
\* identifiers
Caller_AddBook(t, ids, bookID) ==
    /\ pc[t] = "idle"
    /\ LET r == ReadingList("l1", 1, 0, ids, ZeroTime, ZeroTime)
           a == ReadingList_AddBook(r, bookID)
       IN  Applied(t, "ReadingList.AddBook", "nil",
                   [recv |-> r, arg |-> bookID, ok |-> a.ok, after |-> a.list])

\* list.RemoveBook(bookID) on the same receivers
Caller_RemoveBook(t, ids, bookID) ==
    /\ pc[t] = "idle"
    /\ LET r == ReadingList("l1", 1, 0, ids, ZeroTime, ZeroTime)
           a == ReadingList_RemoveBook(r, bookID)
       IN  Applied(t, "ReadingList.RemoveBook", "nil",
                   [recv |-> r, arg |-> bookID, ok |-> a.ok, after |-> a.list])

NextModel ==
    \E t \in {SeqThread} :
        \/ \E title \in TextsAround(200), isbn \in {"", "x"}, authorID \in {"", "a1"},
              pages \in {-2, -1, 0, 1} :
                 Caller_BookValidate(t, title, isbn, authorID, pages)
        \/ \E name \in TextsAround(100), bio \in TextsAround(2000) :
                 Caller_AuthorValidate(t, name, bio)
        \/ \E name \in TextsAround(100), desc \in TextsAround(500) :
                 Caller_ReadingListValidate(t, name, desc)
        \/ \E ids \in {NilSlice} \cup {Slice(q) : q \in SeqsUpTo(BookIDs, MaxBookIDs)},
              bookID \in BookIDs :
                 Caller_AddBook(t, ids, bookID)
        \/ \E ids \in {NilSlice} \cup {Slice(q) : q \in SeqsUpTo(BookIDs, MaxBookIDs)},
              bookID \in BookIDs :
                 Caller_RemoveBook(t, ids, bookID)

SpecModel == InitSvc /\ [][NextModel]_vars

\* C25: length checks are exact at the boundary, with length counted in
\* characters: a Book title of 200, an Author name of 100, an Author bio of
\* 2000, a ReadingList name of 100 and a ReadingList description of 500
\* characters pass Validate, and one character more fails; a page count of 0
\* passes and any negative page count fails
LengthBoundaryInChars ==
    \A t \in Threads :
        LET r == res[t]
            v == r.val
        IN  CASE r.op = "Book.Validate" ->
                   LET rest == v.recv.ISBN # "" /\ v.recv.AuthorID # ""
                   IN  /\ (v.title.chars = 200 /\ rest /\ v.recv.Pages >= 0) => r.err = "nil"
                       /\ v.title.chars = 201 => r.err # "nil"
                       /\ (v.recv.Pages = 0 /\ rest /\ v.title.chars \in 1..200) => r.err = "nil"
                       /\ v.recv.Pages < 0 => r.err # "nil"
              [] r.op = "Author.Validate" ->
                   /\ (v.name.chars = 100 /\ v.bio.chars <= 2000) => r.err = "nil"
                   /\ v.name.chars = 101 => r.err # "nil"
                   /\ (v.bio.chars = 2000 /\ v.name.chars \in 1..100) => r.err = "nil"
                   /\ v.bio.chars = 2001 => r.err # "nil"
              [] r.op = "ReadingList.Validate" ->
                   /\ (v.name.chars = 100 /\ v.desc.chars <= 500) => r.err = "nil"
                   /\ v.name.chars = 101 => r.err # "nil"
                   /\ (v.desc.chars = 500 /\ v.name.chars \in 1..100) => r.err = "nil"
                   /\ v.desc.chars = 501 => r.err # "nil"
              [] OTHER -> TRUE

\* the rules in the order the spec gives, lengths in characters
BookFirstViolated(title, b) ==
    IF title.chars = 0 THEN "title is required"
    ELSE IF title.chars > 200 THEN "title must be 200 characters or less"
    ELSE IF b.ISBN = "" THEN "isbn is required"
    ELSE IF b.AuthorID = "" THEN "author_id is required"
    ELSE IF b.Pages < 0 THEN "pages cannot be negative"
    ELSE "nil"

AuthorFirstViolated(name, bio) ==
    IF name.chars = 0 THEN "name is required"
    ELSE IF name.chars > 100 THEN "name must be 100 characters or less"
    ELSE IF bio.chars > 2000 THEN "bio must be 2000 characters or less"
    ELSE "nil"

ReadingListFirstViolated(name, desc) ==
    IF name.chars = 0 THEN "name is required"
    ELSE IF name.chars > 100 THEN "name must be 100 characters or less"
    ELSE IF desc.chars > 500 THEN "description must be 500 characters or less"
    ELSE "nil"

\* C26: Validate returns the failure of the first violated rule in a fixed
\* order and nothing else: for Book title presence, title length, ISBN
\* presence, author-id presence, page count; for Author name presence, name
\* length, bio length; for ReadingList name presence, name length,
\* description length; and it returns no error exactly when no rule is
\* violated
FirstViolatedRule ==
    \A t \in Threads :
        LET r == res[t]
            v == r.val
        IN  CASE r.op = "Book.Validate" -> r.err = BookFirstViolated(v.title, v.recv)
              [] r.op = "Author.Validate" -> r.err = AuthorFirstViolated(v.name, v.bio)
              [] r.op = "ReadingList.Validate" ->
                     r.err = ReadingListFirstViolated(v.name, v.desc)
              [] OTHER -> TRUE

(***************************************************************************)
(* service: the remaining operations, and all operations of the three      *)
(* services under concurrent requests.  To keep the interleavings of two   *)
(* requests of any kind within reach, the requests name one book, one      *)
(* author and one reading list.                                            *)
(***************************************************************************)
DeleteAuthor(t, id) ==
    \/ /\ sut = Repos
       /\ Call(t, "DeleteAuthor", "author", "Delete", [Loc0 EXCEPT !.id = id])
    \/ /\ InCrit(t, "DeleteAuthor", "author", "Delete")
       /\ loc[t].id = id
       /\ LET r == AuthorRepository_Delete(authors, id)
          IN  /\ authors' = r.store
              /\ IF r.err = "repository.ErrAuthorNotFound"
                 THEN Return(t, "service.ErrAuthorNotFound", NoVal)
                 ELSE Return(t, r.err, NoVal)
       /\ UNCHANGED <<books, lists>>

GetBookCount(t) ==
    \/ /\ sut = Repos
       /\ Call(t, "GetBookCount", "book", "Count", Loc0)
    \/ /\ InCrit(t, "GetBookCount", "book", "Count")
       /\ Return(t, "nil", CountOf(BookRepository_Count(books)))
       /\ UNCHANGED <<books, authors, lists>>

GetAuthorCount(t) ==
    \/ /\ sut = Repos
       /\ Call(t, "GetAuthorCount", "author", "Count", Loc0)
    \/ /\ InCrit(t, "GetAuthorCount", "author", "Count")
       /\ Return(t, "nil", CountOf(AuthorRepository_Count(authors)))
       /\ UNCHANGED <<books, authors, lists>>

GetReadingListCount(t) ==
    \/ /\ sut = Repos
       /\ Call(t, "GetReadingListCount", "list", "Count", Loc0)
    \/ /\ InCrit(t, "GetReadingListCount", "list", "Count")
       /\ Return(t, "nil", CountOf(ReadingListRepository_Count(lists)))
       /\ UNCHANGED <<books, authors, lists>>

\* request bodies: one that passes and one that fails Validate
ConcBooks ==
    {Book("b1", 1, "x", "a1", 0, ZeroTime, ZeroTime),
     Book("b1", 0, "x", "a1", 0, ZeroTime, ZeroTime)}

ConcAuthors ==
    {Author("a1", 1, 0, "PL", ZeroTime, ZeroTime),
     Author("a1", 0, 0, "PL", ZeroTime, ZeroTime)}

ConcLists ==
    {ReadingList("l1", 1, 0, NilSlice, ZeroTime, ZeroTime),
     ReadingList("l1", 0, 0, NilSlice, ZeroTime, ZeroTime)}

\* one step of goroutine t in a service operation
ServiceStep(t) ==
    \/ RLock(t)
    \/ Lock(t)
    \/ \E book \in ConcBooks : CreateBook(t, book)
    \/ GetBook(t, "b1")
    \/ \E book \in ConcBooks : UpdateBook(t, book)
    \/ DeleteBook(t, "b1")
    \/ ListBooks(t)
    \/ GetBooksByAuthor(t, "a1")
    \/ GetBookCount(t)
    \/ \E author \in ConcAuthors : CreateAuthor(t, author)
    \/ GetAuthor(t, "a1")
    \/ \E author \in ConcAuthors : UpdateAuthor(t, author)
    \/ DeleteAuthor(t, "a1")
    \/ ListAuthors(t)
    \/ GetAuthorsByCountry(t, "PL")
    \/ GetAuthorCount(t)
    \/ \E list \in ConcLists : CreateReadingList(t, list)
    \/ GetReadingList(t, "l1")
    \/ \E list \in ConcLists : UpdateReadingList(t, list)
    \/ DeleteReadingList(t, "l1")
    \/ ListReadingLists(t)
    \/ AddBookToList(t, "l1", "b1")
    \/ RemoveBookFromList(t, "l1", "b1")
    \/ GetListsContainingBook(t, "b1")
    \/ GetReadingListCount(t)

NextServices == \E t \in Threads : ServiceStep(t)

SpecServices == InitSvc /\ [][NextServices]_vars

\* goroutine t is in AddBookToList(l, b) past its book-existence check
PastBookCheck(t) == at[t].op = "AddBookToList" /\ at[t].repo = "list"

\* C27: there is an interleaving in which DeleteBook(b) succeeds between
\* AddBookToList(l, b)'s book-existence check and its list update and
\* AddBookToList still returns success, reaching a state in which list l
\* contains b while b is absent from the book repository.  As a property of
\* every step: a DeleteBook that returns while another goroutine is past
\* the check succeeds when the book is stored, and the list update of an
\* AddBookToList whose book has been deleted since the check still stores
\* the list with b in it and returns nil
AddSurvivesDelete ==
    [][\A t \in Threads :
         /\ (Returns(t) /\ at[t].op = "DeleteBook" /\ loc[t].id \in DOMAIN books
               /\ \E u \in Threads \ {t} : PastBookCheck(u) /\ loc[u].bid = loc[t].id) =>
                /\ res'[t].err = "nil"
                /\ loc[t].id \notin DOMAIN books'
         /\ (Returns(t) /\ PastBookCheck(t) /\ at[t].call = "Update"
               /\ loc[t].bid \notin DOMAIN books /\ loc[t].id \in DOMAIN lists) =>
                /\ res'[t].err = "nil"
                /\ loc[t].bid \in Range(lists'[loc[t].id].BookIDs.elems)
                /\ loc[t].bid \notin DOMAIN books']_vars

\* t1 is about to store the list with b1 in it, b1 is no longer stored and
\* t2's DeleteBook has returned nil: t1 is past its check, which found b1,
\* so b1 was deleted after the check, and only t2 was free to do that
AddSurvivesDeleteWitness ==
    /\ InCrit("t1", "AddBookToList", "list", "Update")
    /\ "b1" \in Range(loc["t1"].list.BookIDs.elems)
    /\ "b1" \notin DOMAIN books
    /\ "l1" \in DOMAIN lists
    /\ res["t2"] = [op |-> "DeleteBook", err |-> "nil", val |-> NoVal]

\* the repositories whose lock goroutine t holds, for reading or writing
Holds(t) == {r \in Repos : mu[r].writer = t \/ t \in mu[r].readers}

\* C28: at no point does a thread hold the lock of more than one
\* repository: every service operation, including AddBookToList which
\* touches the book and the reading-list repository, releases one
\* repository's lock before acquiring another, and no lock is held across a
\* call into another component (a goroutine that is not inside a repository
\* method, because it is between two of them or waits to enter one, holds
\* no lock; inside one it holds that repository's lock only)
OneLockAtATime ==
    \A t \in Threads :
        /\ Cardinality(Holds(t)) <= 1
        /\ pc[t] # "crit" => Holds(t) = {}
        /\ pc[t] = "crit" => Holds(t) = {at[t].repo}

\* t1 is inside the list repository for AddBookToList, having left the
\* book repository, whose lock t2 now holds for writing
OneLockAtATimeWitness ==
    /\ InCrit("t1", "AddBookToList", "list", "Get")
    /\ Holds("t1") = {"list"}
    /\ mu["book"].writer = "t2"

(***************************************************************************)
(* The book and the reading-list service, whose repositories               *)
(* AddBookToList visits in turn, under a fair scheduler.  A goroutine      *)
(* inside a critical section keeps running (weak fairness).  sync.RWMutex  *)
(* hands the lock to a blocked Lock before it admits new readers and wakes *)
(* blocked readers when the writer unlocks, so a goroutine for which the   *)
(* lock is free again and again gets it (strong fairness on RLock and      *)
(* Lock).  Nothing forces a new request to arrive.                         *)
(***************************************************************************)
BookAndListStep(t) ==
    \/ RLock(t)
    \/ Lock(t)
    \/ \E book \in ConcBooks : CreateBook(t, book)
    \/ GetBook(t, "b1")
    \/ \E book \in ConcBooks : UpdateBook(t, book)
    \/ DeleteBook(t, "b1")
    \/ ListBooks(t)
    \/ GetBooksByAuthor(t, "a1")
    \/ GetBookCount(t)
    \/ \E list \in ConcLists : CreateReadingList(t, list)
    \/ GetReadingList(t, "l1")
    \/ \E list \in ConcLists : UpdateReadingList(t, list)
    \/ DeleteReadingList(t, "l1")
    \/ ListReadingLists(t)
    \/ AddBookToList(t, "l1", "b1")
    \/ RemoveBookFromList(t, "l1", "b1")
    \/ GetListsContainingBook(t, "b1")
    \/ GetReadingListCount(t)

NextBookAndList == \E t \in Threads : BookAndListStep(t)

FairServices ==
    \A t \in Threads :
        /\ SF_vars(RLock(t))
        /\ SF_vars(Lock(t))
        /\ WF_vars(pc[t] = "crit" /\ BookAndListStep(t))

SpecServicesFair == InitSvc /\ [][NextBookAndList]_vars /\ FairServices

\* C29: under fair scheduling, every invoked repository and service
\* operation eventually returns, for any finite set of concurrently running
\* operations: each lock acquired is released on every path, including the
\* error paths, and no reachable state is a deadlock
EveryOperationReturns ==
    /\ [](\A t \in Threads : pc[t] = "idle" => Holds(t) = {})
    /\ \A t \in Threads : (pc[t] # "idle") ~> (pc[t] = "idle")

\* t2 waits for the write lock of the list repository while t1, whose
\* RemoveBookFromList is about to fail, holds it for reading
EveryOperationReturnsWitness ==
    /\ InCrit("t1", "RemoveBookFromList", "list", "Get")
    /\ "l1" \notin DOMAIN lists
    /\ pc["t2"] = "wait" /\ at["t2"].repo = "list" /\ ModeOf(at["t2"].call) = "W"

\* C30: ReadingList.AddBook(id) on a list without id returns true and
\* appends id at the end, growing membership by exactly one and leaving the
\* existing members and their order unchanged; on a list that already
\* contains id it returns false and leaves BookIDs unchanged
AddBookAppends ==
    \A t \in Threads :
        res[t].op = "ReadingList.AddBook" =>
            LET v == res[t].val
                before == v.recv.BookIDs.elems
                after == v.after.BookIDs.elems
            IN  IF v.arg \notin Range(before)
                THEN /\ v.ok
                     /\ Len(after) = Len(before) + 1
                     /\ after[Len(after)] = v.arg
                     /\ SubSeq(after, 1, Len(before)) = before
                ELSE /\ ~v.ok
                     /\ v.after.BookIDs = v.recv.BookIDs

\* b2 has been added to the list of b1, and b1 has been refused on a list
\* that holds it
AddBookAppendsWitness ==
    \E t \in Threads :
        /\ res[t].op = "ReadingList.AddBook"
        /\ res[t].val.recv.BookIDs.elems = <<"b1">>
        /\ res[t].val.arg = "b2"
        /\ res[t].val.ok
        /\ res[t].val.after.BookIDs.elems = <<"b1", "b2">>


\* C31: ReadingList.RemoveBook(id) on a list containing id returns true,
\* shrinks membership by exactly one, removes id and keeps the remaining ids
\* in their previous relative order; on a list without id (the empty list
\* included) it returns false and leaves BookIDs unchanged
RemoveBookRemoves ==
    \A t \in Threads :
        res[t].op = "ReadingList.RemoveBook" =>
            LET v == res[t].val
                before == v.recv.BookIDs.elems
                after == v.after.BookIDs.elems
            IN  IF v.arg \in Range(before)
                THEN /\ v.ok
                     /\ Len(after) = Len(before) - 1
                     /\ v.arg \notin Range(after)
                     /\ after = Without(before, v.arg)
                ELSE /\ ~v.ok
                     /\ v.after.BookIDs = v.recv.BookIDs

(***************************************************************************)
(* Specification of concurrent AddBookToList requests on one list.  The    *)
(* stored books and the list only come into being and the membership only  *)
(* grows, so that what a finished call has added is still there unless a   *)
(* later AddBookToList took it away.  A finished call leaves only its      *)
(* error behind, so the requests are told apart by their goroutine: t1     *)
(* adds b1, t2 adds b1 or b2.                                              *)
(***************************************************************************)
AddsOf(t) == IF t = "t1" THEN {"b1"} ELSE {"b1", "b2"}

NextAdds ==
    \E t \in Threads :
        \/ RLock(t)
        \/ Lock(t)
        \/ \E book \in ListedBooks : CreateBook(t, book)
        \/ \E list \in ConcLists : CreateReadingList(t, list)
        \/ \E bid \in AddsOf(t) : AddBookToList(t, "l1", bid)

SpecAdds == InitSvc /\ [][NextAdds]_vars

\* t2's AddBookToList(l1, bid) returns in this step, t1's AddBookToList(l1, b1)
\* has returned success and t1 has called nothing since
SecondAddReturns(bid) ==
    /\ Returns("t2")
    /\ at["t2"].op = "AddBookToList" /\ loc["t2"].bid = bid
    /\ res["t1"].op = "AddBookToList" /\ res["t1"].err = "nil"

\* C32: if two AddBookToList calls on the same list with two different
\* existing books run concurrently and both return success, the stored list
\* afterwards contains both books
AddsBothKept ==
    [][(SecondAddReturns("b2") /\ res'["t2"].err = "nil")
          => /\ "l1" \in DOMAIN lists'
             /\ {"b1", "b2"} \subseteq Range(lists'["l1"].BookIDs.elems)]_vars

\* C33: if several AddBookToList calls for the same list and the same
\* existing book run concurrently on a list that does not contain the book,
\* exactly one of them returns success and every other returns
\* BookAlreadyInList
SameBookAddedOnce ==
    [][SecondAddReturns("b1")
          => res'["t2"].err = "service.ErrBookAlreadyInList"]_vars

(***************************************************************************)
(* Specification of one repository under concurrent calls of all its       *)
(* methods                                                                 *)
(***************************************************************************)
\* two versions of one entity per repository
LinBooks == {Book("b1", 1, isbn, "a1", 0, ZeroTime, ZeroTime) : isbn \in {"x", "y"}}

LinAuthors == {Author("a1", 1, 0, c, ZeroTime, ZeroTime) : c \in Countries}

LinLists ==
    {ReadingList("l1", 1, 0, ids, ZeroTime, ZeroTime) : ids \in {NilSlice, Slice(<<"b1">>)}}

NextLin ==
    \/ Tick
    \/ \E t \in Threads :
        \/ RLock(t)
        \/ Lock(t)
        \/ \E book \in LinBooks : BookRepo_Create(t, book)
        \/ BookRepo_Get(t, "b1")
        \/ \E book \in LinBooks : BookRepo_Update(t, book)
        \/ BookRepo_Delete(t, "b1")
        \/ BookRepo_List(t)
        \/ BookRepo_FindByAuthor(t, "a1")
        \/ BookRepo_Count(t)
        \/ \E author \in LinAuthors : AuthorRepo_Create(t, author)
        \/ AuthorRepo_Get(t, "a1")
        \/ \E author \in LinAuthors : AuthorRepo_Update(t, author)
        \/ AuthorRepo_Delete(t, "a1")
        \/ AuthorRepo_List(t)
        \/ AuthorRepo_FindByCountry(t, "PL")
        \/ AuthorRepo_Count(t)
        \/ \E list \in LinLists : ListRepo_Create(t, list)
        \/ ListRepo_Get(t, "l1")
        \/ \E list \in LinLists : ListRepo_Update(t, list)
        \/ ListRepo_Delete(t, "l1")
        \/ ListRepo_List(t)
        \/ ListRepo_FindByBook(t, "b1")
        \/ ListRepo_Count(t)

SpecLin == InitRepo /\ [][NextLin]_vars

\* the map of repository r
StoreOf(r) == IF r = "book" THEN books ELSE IF r = "author" THEN authors ELSE lists

\* goroutine t is between the Lock/RLock and the unlock of a call on r
Inside(t, r) == pc[t] = "crit" /\ at[t].repo = r

\* a goroutine inside a writing method of r is alone inside r
WriterAlone(r) ==
    \A t \in Threads :
        (Inside(t, r) /\ ModeOf(at[t].call) = "W")
            => \A u \in Threads \ {t} : ~Inside(u, r)

\* the map of r stays as it is from the moment t has its lock until t's own
\* method body runs, and only a writing method changes it
Isolated(r) ==
    /\ \A t \in Threads :
          (Inside(t, r) /\ ~Returns(t)) => StoreOf(r)' = StoreOf(r)
    /\ StoreOf(r)' # StoreOf(r)
          => \E t \in Threads :
                Inside(t, r) /\ ModeOf(at[t].call) = "W" /\ Returns(t)

\* C34: each repository is linearizable: under any interleaving of
\* concurrent Create, Get, Update, Delete, List, Find and Count calls a
\* writing method runs alone inside the repository and the map a method
\* works on is the map as it was when the method got its lock, so results
\* and final map are those of running the calls one at a time in the order
\* of their lock acquisition, and no read observes a partially applied write
Linearizable ==
    /\ [](\A r \in Repos : WriterAlone(r))
    /\ [][\A r \in Repos : Isolated(r)]_vars

\* t1 is inside Update of the stored list while t2 waits for the read lock of
\* List and the stored list is the one an earlier Update left
LinearizableWitness ==
    /\ InCrit("t1", "ReadingListRepository.Update", "list", "Update")
    /\ loc["t1"].list.BookIDs = NilSlice
    /\ "l1" \in DOMAIN lists /\ lists["l1"].BookIDs.elems = <<"b1">>
    /\ lists["l1"].UpdatedAt > lists["l1"].CreatedAt
    /\ pc["t2"] = "wait" /\ at["t2"].op = "ReadingListRepository.List"

(***************************************************************************)
(* Specification of concurrent Create calls with one identifier.  Each     *)
(* goroutine passes an entity of its own, so that the stored entity tells  *)
(* whose call stored it.                                                   *)
(***************************************************************************)
BookOf(t) == Book("b1", 1, IF t = "t1" THEN "x" ELSE "y", "a1", 0, ZeroTime, ZeroTime)

AuthorOf(t) == Author("a1", 1, 0, IF t = "t1" THEN "PL" ELSE "UK", ZeroTime, ZeroTime)

ListOf(t) ==
    ReadingList("l1", 1, 0, IF t = "t1" THEN NilSlice ELSE Slice(<<"b1">>),
                ZeroTime, ZeroTime)

NextCreates ==
    \/ Tick
    \/ \E t \in Threads :
        \/ Lock(t)
        \/ BookRepo_Create(t, BookOf(t))
        \/ AuthorRepo_Create(t, AuthorOf(t))
        \/ ListRepo_Create(t, ListOf(t))

SpecCreates == InitRepo /\ [][NextCreates]_vars

\* the entity goroutine t passes to the repository r and the error r returns
\* for a stored identifier
PassedTo(r, t) == IF r = "book" THEN BookOf(t) ELSE IF r = "author" THEN AuthorOf(t) ELSE ListOf(t)

ExistsError(r) ==
    IF r = "book" THEN "repository.ErrBookExists"
    ELSE IF r = "author" THEN "repository.ErrAuthorExists"
    ELSE "repository.ErrReadingListExists"

\* stored is the entity e as Create stores it at some time
StoredFrom(stored, e) ==
    /\ stored.CreatedAt \in 1..MaxClock /\ stored.UpdatedAt = stored.CreatedAt
    /\ LET z == [stored EXCEPT !.CreatedAt = ZeroTime, !.UpdatedAt = ZeroTime]
       IN  IF "BookIDs" \in DOMAIN e
           THEN /\ z.BookIDs.elems = e.BookIDs.elems
                /\ [z EXCEPT !.BookIDs = e.BookIDs] = e
           ELSE z = e

\* t's last call was a Create that returned err
Created(t, err) ==
    /\ res[t].op \in {"BookRepository.Create", "AuthorRepository.Create",
                      "ReadingListRepository.Create"}
    /\ res[t].err = err

\* C35: if several Create calls with the same fresh identifier run
\* concurrently on one repository, exactly one returns success, every other
\* returns AlreadyExists, and the stored entity is the one passed by the
\* successful call
CreateOnce ==
    /\ [](\A r \in Repos : sut = {r} =>
            \A t \in Threads :
                /\ Created(t, "nil") =>
                      /\ DOMAIN StoreOf(r) = {PassedTo(r, t).ID}
                      /\ StoredFrom(StoreOf(r)[PassedTo(r, t).ID], PassedTo(r, t))
                      /\ \A u \in Threads \ {t} :
                            res[u].op # "" => Created(u, ExistsError(r))
                /\ (\E e \in {"nil", ExistsError(r)} : Created(t, e))
                      => \E u \in Threads :
                            StoredFrom(StoreOf(r)[PassedTo(r, u).ID], PassedTo(r, u)))
    /\ [][\A r \in Repos, t \in Threads :
            (sut = {r} /\ Returns(t)) =>
                IF StoreOf(r) = EmptyMap
                THEN res'[t].err = "nil"
                ELSE res'[t].err = ExistsError(r) /\ StoreOf(r)' = StoreOf(r)]_vars

\* both goroutines have called Create with l1: t2 got the lock first, so its
\* list is stored, and t1 was refused
CreateOnceWitness ==
    /\ Created("t2", "nil")
    /\ Created("t1", "repository.ErrReadingListExists")
    /\ StoredFrom(lists["l1"], ListOf("t2"))

\* C36: a reading list that is deleted while an AddBookToList or
\* RemoveBookFromList call on it is in flight stays deleted: the in-flight
\* call's final update fails with an error and never re-inserts the list
\* (only CreateReadingList makes an identifier stored), so Get(listId)
\* returns NotFound afterwards
StaysDeleted ==
    [][/\ \A t \in Threads :
            /\ (/\ Returns(t)
                /\ at[t].op \in {"AddBookToList", "RemoveBookFromList"}
                /\ at[t].call = "Update"
                /\ loc[t].id \notin DOMAIN lists)
                  => /\ lists' = lists
                     /\ res'[t].err = "repository.ErrReadingListNotFound"
            /\ (/\ Returns(t)
                /\ at[t].op = "GetReadingList"
                /\ loc[t].id \notin DOMAIN lists)
                  => res'[t].err = "service.ErrReadingListNotFound"
       /\ ~(DOMAIN lists' \subseteq DOMAIN lists)
            => \E t \in Threads : Returns(t) /\ at[t].op = "CreateReadingList"]_vars

\* t2 deleted l1 between the Get and the Update of t1's AddBookToList: the
\* Update was refused, and l1 is not stored
StaysDeletedWitness ==
    /\ res["t1"].op = "AddBookToList"
    /\ res["t1"].err = "repository.ErrReadingListNotFound"
    /\ res["t2"].op = "DeleteReadingList" /\ res["t2"].err = "nil"
    /\ "l1" \notin DOMAIN lists

\* C37: DeleteBook changes only the book repository: the BookIDs of every
\* stored reading list are the same before and after, so a list keeps the
\* identifier of a deleted book and GetListsContainingBook(b) still returns
\* that list after b is deleted
DeleteBookFrame ==
    [][\A t \in Threads :
          /\ (Acts(t) /\ "DeleteBook" \in {at[t].op, at'[t].op})
                => /\ lists' = lists
                   /\ authors' = authors
                   /\ \A b \in DOMAIN books' : b \in DOMAIN books /\ books'[b] = books[b]
          /\ (Returns(t) /\ at[t].op = "GetListsContainingBook")
                => HoldsExactly(res'[t].val, lists,
                       {i \in DOMAIN lists :
                           loc[t].bid \in Range(lists[i].BookIDs.elems)})]_vars

\* t2 has deleted b1; l1 still holds it, and t1's GetListsContainingBook(b1)
\* has returned l1
DeleteBookFrameWitness ==
    /\ res["t2"].op = "DeleteBook" /\ res["t2"].err = "nil"
    /\ "b1" \notin DOMAIN books
    /\ "l1" \in DOMAIN lists /\ lists["l1"].BookIDs.elems = <<"b1">>
    /\ res["t1"].op = "GetListsContainingBook"
    /\ res["t1"].val.elems = {lists["l1"]}

(***************************************************************************)
(* Specification of PUT /books/{id} among POST and DELETE, one request at  *)
(* a time                                                                  *)
(***************************************************************************)
\* request bodies: malformed JSON, and books with or without a title that
\* carry one of two ISBNs
HttpUpdateBodies ==
    {BadJSON} \cup
    {Decoded(Book(id, title, isbn, "a1", 0, ZeroTime, ZeroTime)) :
        id \in BookIDs, title \in {0, 1}, isbn \in {"x", "y"}}

NextHttpUpdate ==
    \E t \in {SeqThread} :
        \/ RLock(t)
        \/ Lock(t)
        \/ \E body \in HttpUpdateBodies : BookHandler_createBook(t, body)
        \/ \E id \in BookIDs, body \in HttpUpdateBodies : BookHandler_updateBook(t, id, body)
        \/ \E id \in BookIDs : BookHandler_deleteBook(t, id)

SpecHttpUpdate == InitSvc /\ [][NextHttpUpdate]_vars

\* C38: UpdateBook checks in the order validation, ISBN collision,
\* existence: for an identifier that is not stored it returns InvalidBook
\* (HTTP 400) when the body fails Validate, otherwise DuplicateISBN (HTTP
\* 409) when a stored book carries the same ISBN, and NotFound (HTTP 404)
\* only when neither applies
UpdateBookCheckOrder ==
    [][\A t \in Threads, id \in BookIDs, body \in HttpUpdateBodies \ {BadJSON} :
          (BookHandler_updateBook(t, id, body) /\ Answers(t) /\ id \notin DOMAIN books)
             => LET book == [body.v EXCEPT !.ID = id]
                    taken == \E i \in DOMAIN books : books[i].ISBN = book.ISBN
                    status == Response(t)'.status
                IN  /\ books' = books
                    /\ IF Book_Validate(book) # "nil"
                       THEN res'[t].err = "service.ErrInvalidBook" /\ status = 400
                       ELSE IF taken
                       THEN res'[t].err = "service.ErrDuplicateISBN" /\ status = 409
                       ELSE res'[t].err = "service.ErrBookNotFound" /\ status = 404]_vars

\* only b2 is stored and a PUT has been answered 409: it was the PUT of b1
\* with the ISBN of b2, as a book does not collide with itself
UpdateBookCheckOrderWitness ==
    /\ DOMAIN books = {"b2"}
    /\ res[SeqThread].op = "UpdateBook"
    /\ res[SeqThread].err = "service.ErrDuplicateISBN"
    /\ Response(SeqThread).status = 409

\* C39: after a successful UpdateReadingList(list) the stored BookIDs equal
\* list.BookIDs exactly, whatever the previous membership was and whether or
\* not those books exist in the book repository; an update that omits
\* BookIDs leaves the stored list with empty membership
UpdateReplacesMembers ==
    [][\A t \in Threads :
          (Returns(t) /\ at[t].op = "UpdateReadingList" /\ res'[t].err = "nil")
             => LET list == loc[t].list
                IN  /\ list.ID \in DOMAIN lists'
                    /\ lists'[list.ID].BookIDs.elems = list.BookIDs.elems
                    /\ list.BookIDs.isNil => lists'[list.ID].BookIDs = Slice(<<>>)]_vars

\* an update without book_ids has succeeded and l1 is stored without
\* members; no book is stored
UpdateReplacesMembersWitness ==
    /\ res[SeqThread].op = "UpdateReadingList" /\ res[SeqThread].err = "nil"
    /\ res[SeqThread].val.ID = "l1" /\ res[SeqThread].val.BookIDs.isNil
    /\ lists["l1"].BookIDs = Slice(<<>>)
    /\ books = EmptyMap

====
